---- MODULE Spec2Model ----
(***************************************************************************)
(* photoface: the storage engine (core/database.py), the scan pipeline     *)
(* (core/scan_manager.py, core/face_analyzer.py, utils/helpers.py) and the *)
(* folder and person handlers of the interactive layer (ui/folders_tab.py, *)
(* ui/faces_tab.py, ui/photo_viewer.py), with the clustering engine        *)
(* (core/face_clusterer.py) and the settings (core/config.py), as one      *)
(* state machine.                                                          *)
(*                                                                         *)
(* Every storage operation opens its own connection and commits, so one    *)
(* storage call is one atomic step.  A ScanTask runs on a QThreadPool      *)
(* thread: its steps interleave with the handlers of the UI thread and     *)
(* with the steps of any other ScanTask the pool is running.  Storage      *)
(* calls are assumed to succeed (no sqlite3.OperationalError) and the file *)
(* tree does not change while the program runs.                            *)
(***************************************************************************)
EXTENDS Integers, Sequences, FiniteSets, TLC

\* ------------------------------------------------------------------ bounds

\* Things the user does in one run of the model: the handlers of the folders
\* and faces tabs, start_scan and cancel_scan calls that change something,
\* and kills of the process.
MaxUserActions == 4

\* ------------------------------------------------------- the file tree

\* Directories in os.walk (top-down) order.
AllDirs == <<"/pics", "/pics/sub">>
\* <<ancestor, descendant>> pairs of AllDirs.
Subdirs == {<<"/pics", "/pics/sub">>}
\* Image files in sorted path order, and the directory holding each.
AllFiles == <<"/pics/a.jpg", "/pics/sub/b.jpg">>
FileDir == [f \in {"/pics/a.jpg", "/pics/sub/b.jpg"} |->
              IF f = "/pics/a.jpg" THEN "/pics" ELSE "/pics/sub"]
\* Files no decoder can load (cv2.imread gives None and PIL raises).
Unreadable == {"/pics/sub/b.jpg"}
\* Faces the detector model finds in each readable file.
ModelFaces == [f \in {"/pics/a.jpg", "/pics/sub/b.jpg"} |-> 2]

DirSet == {AllDirs[i] : i \in 1..Len(AllDirs)}
FileSet == {AllFiles[i] : i \in 1..Len(AllFiles)}
InTree(d, root) == d = root \/ <<root, d>> \in Subdirs

\* os.walk(root): the directories of the tree under root, top-down.
Walk(root) == SelectSeq(AllDirs, LAMBDA d : InTree(d, root))

\* helpers.get_image_files: os.walk below folder_path, so the files of the
\* whole subtree, sorted.
get_image_files(folder_path) ==
    SelectSeq(AllFiles, LAMBDA f : InTree(FileDir[f], folder_path))

\* FaceAnalyzer.detect_faces: every failure is caught and gives [].
detect_faces(image_path) ==
    IF image_path \in Unreadable
    THEN <<>>
    ELSE [k \in 1..ModelFaces[image_path] |-> k]

\* ------------------------------------------------------------------ state

VARIABLES
    folders,          \* rows of table folders: [id, path]
    images,           \* rows of table images: [id, folder_id, file_path, scan_status]
    persons,          \* rows of table persons: [id, name, is_confirmed]
    faces,            \* rows of table faces: [id, image_id, person_id, is_person, det]
    sqlite_sequence,  \* AUTOINCREMENT: the largest id ever given, per table
    tasks,            \* the ScanTask objects constructed so far, in order
    current_task,     \* ScanManager.current_task: an index of tasks, 0 for None
    add_folder_ret,   \* per path, what the last add_folder(path) returned (-1 before any)
    detected,         \* per file, how many times detect_faces ran on it
    actions,          \* user actions made so far
    settings,         \* rows of table settings: key -> value, NoValue for no row
    config,           \* Config.settings, the dict MainWindow's Config holds
    ui,               \* the last faces-tab or viewer handler and what it reported
    cl,               \* cluster_faces on its own: its inputs and its last result
    ex,               \* the albums tab, its ExportManager and the export folder
    reg               \* one image file: its registration and the face boxes stored

vars == <<folders, images, persons, faces, sqlite_sequence, tasks, current_task,
          add_folder_ret, detected, actions, settings, config, ui, cl, ex, reg>>

\* What no scan step and no folders-tab handler touches.
cfgvars == <<settings, config, ui, cl, ex, reg>>

dbvars == <<folders, images, persons, faces, sqlite_sequence>>

Sentinel == "not recognized"
Ids(rows) == {r.id : r \in rows}
\* What the user types into a name dialog.
Names == {Sentinel, "Alice", "Person_1"}

\* ------------------------------------------------------- storage engine

\* cursor.lastrowid on a connection opened for this one statement: the new
\* row's id, and 0 when INSERT OR IGNORE inserted nothing.
lastrowid(inserted, new_id) == IF inserted THEN new_id ELSE 0

folder_exists(fs, folder_path) == \E r \in fs : r.path = folder_path

FolderIdOf(fs, folder_path) ==
    IF folder_exists(fs, folder_path)
    THEN (CHOOSE r \in fs : r.path = folder_path).id
    ELSE 0

\* add_folder: INSERT OR IGNORE INTO folders (path); returns cursor.lastrowid.
\* Given the table and the sequence value, gives both back with the return value.
add_folder(fs, last, folder_path) ==
    LET inserted == ~folder_exists(fs, folder_path)
    IN [folders |-> IF inserted
                    THEN fs \cup {[id |-> last + 1, path |-> folder_path]}
                    ELSE fs,
        last |-> IF inserted THEN last + 1 ELSE last,
        ret |-> lastrowid(inserted, last + 1)]

\* remove_folder: DELETE FROM folders WHERE path = ?.  get_connection never
\* issues PRAGMA foreign_keys = ON, so no ON DELETE CASCADE clause acts.
remove_folder(fs, folder_path) == {r \in fs : r.path # folder_path}

\* get_folder_by_id: the row, or None (here <<>>).
get_folder_by_id(fs, folder_id) ==
    IF \E r \in fs : r.id = folder_id
    THEN LET r == CHOOSE r \in fs : r.id = folder_id IN <<r.id, r.path>>
    ELSE <<>>

\* get_all_folders: ORDER BY added_date, which is insertion (id) order.
RECURSIVE get_all_folders(_)
get_all_folders(fs) ==
    IF fs = {} THEN <<>>
    ELSE LET m == CHOOSE r \in fs : \A q \in fs : r.id <= q.id
         IN <<(<<m.id, m.path>>)>> \o get_all_folders(fs \ {m})

\* ScanTask._get_or_create_folder_db_id, on the table and sequence value.
get_or_create_folder_db_id(fs, last, folder_path) ==
    IF folder_exists(fs, folder_path)
    THEN [folders |-> fs, last |-> last, ret |-> FolderIdOf(fs, folder_path)]
    ELSE add_folder(fs, last, folder_path)

image_exists(im, file_path) == \E r \in im : r.file_path = file_path

ImageIdOf(im, file_path) ==
    IF image_exists(im, file_path)
    THEN (CHOOSE r \in im : r.file_path = file_path).id
    ELSE 0

\* add_image answering with the existing row's id for a registered path.
add_image_existing_id(im, last, folder_id, file_path) ==
    LET inserted == ~image_exists(im, file_path)
    IN [images |-> IF inserted
                   THEN im \cup {[id |-> last + 1, folder_id |-> folder_id,
                                  file_path |-> file_path, scan_status |-> "pending"]}
                   ELSE im,
        last |-> IF inserted THEN last + 1 ELSE last,
        ret |-> IF inserted THEN last + 1 ELSE ImageIdOf(im, file_path)]

\* add_image: INSERT OR IGNORE INTO images; scan_status defaults to 'pending';
\* returns cursor.lastrowid.
add_image(im, last, folder_id, file_path) ==
    LET inserted == ~image_exists(im, file_path)
    IN [images |-> IF inserted
                   THEN im \cup {[id |-> last + 1, folder_id |-> folder_id,
                                  file_path |-> file_path, scan_status |-> "pending"]}
                   ELSE im,
        last |-> IF inserted THEN last + 1 ELSE last,
        ret |-> lastrowid(inserted, last + 1)]

\* update_image_status: UPDATE images SET scan_status = ? WHERE id = ?.
update_image_status(im, image_id, status) ==
    {IF r.id = image_id THEN [r EXCEPT !.scan_status = status] ELSE r : r \in im}

\* image_already_processed: a row with this path and status 'completed'.
image_already_processed(im, file_path) ==
    \E r \in im : r.file_path = file_path /\ r.scan_status = "completed"

\* get_person_by_name: the first row with this name, or None (here 0).
get_person_by_name(ps, name) ==
    IF \E r \in ps : r.name = name
    THEN (CHOOSE r \in ps : r.name = name /\
                            \A q \in ps : q.name = name => r.id <= q.id).id
    ELSE 0

\* create_person: INSERT INTO persons (name); is_confirmed defaults to FALSE.
create_person(ps, last, name) ==
    ps \cup {[id |-> last + 1, name |-> name, is_confirmed |-> FALSE]}

\* add_face: INSERT INTO faces (..., is_person) VALUES (..., 0).
add_face(fc, last, image_id, person_id, det) ==
    fc \cup {[id |-> last + 1, image_id |-> image_id, person_id |-> person_id,
              is_person |-> FALSE, det |-> det]}

\* move_face_to_person: UPDATE faces SET person_id = ? WHERE id = ?.
move_face_to_person(fc, face_id, new_person_id) ==
    {IF r.id = face_id THEN [r EXCEPT !.person_id = new_person_id] ELSE r : r \in fc}

\* get_person_faces: the faces of a person JOINed to their images.
get_person_faces(fc, im, person_id) ==
    {r \in fc : r.person_id = person_id /\ \E i \in im : i.id = r.image_id}

\* The export queries.  Each SELECTs DISTINCT rows of faces JOIN images for
\* the faces of person_id; the result is given as the set of file_path
\* values of its rows (file_path is UNIQUE in images).  The subquery counts
\* the faces with the image's id, whoever owns them.
faces_on_image(fc, image_id) == Cardinality({f2 \in fc : f2.image_id = image_id})
get_person_photos(fc, im, person_id) ==
    {i.file_path : i \in {i \in im : \E f \in fc : /\ f.image_id = i.id
                                                  /\ f.person_id = person_id}}
get_photos_with_multiple_faces_own(fc, im, person_id) ==
    {i.file_path :
        i \in {i \in im : \E f \in fc :
                   /\ f.image_id = i.id /\ f.person_id = person_id
                   /\ Cardinality({f2 \in fc : /\ f2.image_id = i.id
                                               /\ f2.person_id = person_id}) > 1}}
get_photos_with_multiple_faces(fc, im, person_id) ==
    {i.file_path :
        i \in {i \in im : \E f \in fc :
                   /\ f.image_id = i.id /\ f.person_id = person_id
                   /\ faces_on_image(fc, i.id) > 1}}
get_single_photos(fc, im, person_id) ==
    {i.file_path :
        i \in {i \in im : \E f \in fc :
                   /\ f.image_id = i.id /\ f.person_id = person_id
                   /\ faces_on_image(fc, i.id) = 1}}

\* set_face_person_status: UPDATE faces SET is_person = ? WHERE id = ?.
set_face_person_status(fc, face_id, is_person) ==
    {IF r.id = face_id THEN [r EXCEPT !.is_person = is_person] ELSE r : r \in fc}

\* update_person_name and confirm_person.
update_person_name(ps, person_id, new_name) ==
    {IF r.id = person_id THEN [r EXCEPT !.name = new_name] ELSE r : r \in ps}
confirm_person(ps, person_id) ==
    {IF r.id = person_id THEN [r EXCEPT !.is_confirmed = TRUE] ELSE r : r \in ps}

\* merge_persons: move the source's faces to the target, delete the source.
merge_persons_faces_cascade(fc, source_person_id, target_person_id) ==
    {r \in fc : r.person_id # source_person_id}
merge_persons_faces(fc, source_person_id, target_person_id) ==
    {IF r.person_id = source_person_id
     THEN [r EXCEPT !.person_id = target_person_id] ELSE r : r \in fc}
merge_persons_persons_kept(ps, source_person_id) == ps
merge_persons_persons(ps, source_person_id) == {r \in ps : r.id # source_person_id}
\* What merge_persons returns: cursor.rowcount > 0 after the DELETE.
merge_persons_ret(ps, source_person_id) == \E r \in ps : r.id = source_person_id

\* ------------------------------------------------- settings and Config

\* get_setting's "no row": fetchone() gives None.
NoValue == -1
\* The keys followed: the cluster counter, the similarity threshold (the
\* threshold in tenths, 6 for 0.6) and what save_window_state writes.
SettingKeys == {"last_cluster_id", "scan.similarity_threshold",
                "ui.window_geometry", "ui.window_state", "ui.last_tab_index"}
default_similarity_threshold == 6
Thresholds == {6, 8}

\* get_setting: the row's value, or the default without a row.
get_setting(st, key, default) == IF st[key] = NoValue THEN default ELSE st[key]
\* set_setting: INSERT OR REPLACE.
set_setting(st, key, value) == [st EXCEPT ![key] = value]

\* Values of settings, in the dict of Config and as the text of a row.  A
\* number, and None (Null, the row 'null'), is written by json.dumps and
\* read back by json.loads as itself.  The others are the QByteArray that
\* saveGeometry and saveState give, the row text _serialize_value makes of
\* it ({"__type__": "QByteArray", "__value__": base64}), the bytes object
\* _deserialize_value makes of that text, the row text json.dumps(str(b))
\* of a bytes object b, and the str that text is read back as.
Null == -2
QByteArray == 100
QByteArrayJson == 101
BytesObject == 102
BytesReprJson == 103
BytesReprStr == 104

\* Config._serialize_value: json.dumps; for a QByteArray, on which
\* json.dumps raises TypeError and which has a callable data, the dict with
\* the base64 text; for any other object json.dumps(str(value)).
serialize_value(value) ==
    IF value = QByteArray THEN QByteArrayJson
    ELSE IF value = BytesObject THEN BytesReprJson
    ELSE IF value = BytesReprStr THEN BytesReprJson
    ELSE value
\* Config._deserialize_value: json.loads; a dict of type QByteArray gives
\* the decoded bytes.
deserialize_value(value_str) ==
    IF value_str = QByteArrayJson THEN BytesObject
    ELSE IF value_str = BytesReprJson THEN BytesReprStr
    ELSE value_str

\* Config.load_settings: the defaults, overlaid with every row of settings,
\* deserialized.  The defaults hold a similarity threshold, None for the
\* window geometry and state, tab 0, and no cluster counter.
default_settings ==
    [k \in SettingKeys |->
        IF k = "scan.similarity_threshold" THEN default_similarity_threshold
        ELSE IF k \in {"ui.window_geometry", "ui.window_state"} THEN Null
        ELSE IF k = "ui.last_tab_index" THEN 0
        ELSE NoValue]
load_settings(st) ==
    [k \in SettingKeys |->
        IF st[k] # NoValue THEN deserialize_value(st[k]) ELSE default_settings[k]]

\* Config.save_settings: every leaf of the dict is serialized and written
\* to its row.
save_settings(st, cf) ==
    [k \in SettingKeys |-> IF cf[k] # NoValue THEN serialize_value(cf[k]) ELSE st[k]]

\* Config.get: the dict, then the row, then the default.
Config_get(cf, st, key, default) ==
    IF cf[key] # NoValue THEN cf[key]
    ELSE IF st[key] # NoValue THEN deserialize_value(st[key])
    ELSE default

\* Config.set: the dict is updated, save_settings writes the whole dict, and
\* the key is written once more.  Gives the new dict and the new rows.
Config_set(cf, st, key, value) ==
    LET cf2 == [cf EXCEPT ![key] = value]
    IN [config |-> cf2,
        settings |-> set_setting(save_settings(st, cf2), key, serialize_value(value))]

\* ---------------------------------------------------------- FaceClusterer

\* An embedding is a vector of two integers here, <<>> an empty blob.  The
\* detector gives the two faces of /pics/a.jpg embeddings at 45 degrees
\* (cosine similarity 0.707); rows of the same detection (the file scanned
\* twice) hold the same embedding.
ModelEmbedding(det) == IF det = 1 THEN <<1, 0>> ELSE <<1, 1>>

\* get_all_face_embeddings: the faces whose person is named as the sentinel,
\* in rowid order.
RECURSIVE SortById(_)
SortById(rows) ==
    IF rows = {} THEN <<>>
    ELSE LET r == CHOOSE x \in rows : \A y \in rows : x.id <= y.id
         IN <<r>> \o SortById(rows \ {r})
get_all_face_embeddings(fc, ps) ==
    SortById({r \in fc : \E p \in ps : p.id = r.person_id /\ p.name = Sentinel})

\* Lines 104-110: each vector is divided by its norm, a zero norm replaced
\* by 1 (the vector stays zero), and similarity is the dot product.
\* similarity_ge says that the similarity of a and b is at least bound
\* tenths, for bound >= 0, in exact arithmetic.
dot(a, b) == a[1] * b[1] + a[2] * b[2]
similarity_le(a, b, bound) ==
    IF dot(a, a) = 0 \/ dot(b, b) = 0
    THEN 0 <= bound
    ELSE \/ dot(a, b) < 0
         \/ 100 * dot(a, b) * dot(a, b) <= bound * bound * dot(a, a) * dot(b, b)
similarity_ge(a, b, bound) ==
    IF dot(a, a) = 0 \/ dot(b, b) = 0
    THEN 0 >= bound
    ELSE /\ dot(a, b) >= 0
         /\ 100 * dot(a, b) * dot(a, b) >= bound * bound * dot(a, a) * dot(b, b)

\* DBSCAN(eps = 1 - threshold, min_samples = 2, metric = 'precomputed') on
\* distance = 1 - similarity: q is in the neighbourhood of p when
\* 1 - similarity <= eps, that is similarity >= 1 - eps (tenths).  A core
\* point has min_samples points in its neighbourhood, itself counted if it
\* is there.
min_samples == 2
eps(threshold) == 10 - threshold
Neighborhood(points, emb, threshold, p) ==
    {q \in points : similarity_ge(emb[p], emb[q], 10 - eps(threshold))}
\* The neighbourhood of every point, computed once from the distance matrix.
neighborhoods(points, emb, threshold) ==
    [p \in points |-> Neighborhood(points, emb, threshold, p)]
IsCore_three(nb, p) == Cardinality(nb[p]) >= min_samples + 1
IsCore(nb, p) == Cardinality(nb[p]) >= min_samples
\* The points density-reachable from S: grown through core points only.
RECURSIVE Expand(_, _)
Expand_one_hop(nb, S) ==
    S \cup UNION {nb[p] : p \in {q \in S : IsCore(nb, q)}}
Expand(nb, S) ==
    CHOOSE reached \in
        {IF N = S THEN S ELSE Expand(nb, N) :
            N \in {S \cup UNION {nb[p] : p \in {q \in S : IsCore(nb, q)}}}} : TRUE
\* fit_predict: the points in index order; an unlabelled core point opens
\* the next label and gives it to every unlabelled point reachable from it.
\* -1 is noise.
RECURSIVE fit_predict(_, _, _, _, _)
fit_predict(order, i, nb, labels, next_label) ==
    IF i > Len(order) THEN labels
    ELSE IF labels[order[i]] # -1 \/ ~IsCore(nb, order[i])
    THEN fit_predict(order, i + 1, nb, labels, next_label)
    ELSE CHOOSE result \in
             {fit_predict(order, i + 1, nb,
                          [q \in DOMAIN labels |->
                              IF q \in reached /\ labels[q] = -1
                              THEN next_label ELSE labels[q]],
                          next_label + 1) :
                 reached \in {Expand(nb, {order[i]})}} : TRUE

\* cluster_faces on the rows the store returned: order holds their face
\* ids, emb[id] the embedding.  Rows with an empty embedding are skipped,
\* fewer than two embeddings give no cluster; otherwise the face ids of each
\* label, noise left out, each list in row order, the clusters by label.
group_by_label(face_ids, labels) ==
    CHOOSE groups \in
        {[k \in 1..Cardinality({l[q] : q \in DOMAIN l} \ {-1}) |->
             SelectSeq(face_ids, LAMBDA q : l[q] = k - 1)] : l \in {labels}} : TRUE
cluster_faces(order, emb, threshold) ==
    LET face_ids == SelectSeq(order, LAMBDA q : emb[q] # <<>>)
        points == {face_ids[k] : k \in 1..Len(face_ids)}
    IN IF Len(face_ids) < 2 THEN <<>>
       ELSE CHOOSE groups \in
                {group_by_label(face_ids, fit_predict(face_ids, 1, nb, [q \in points |-> -1], 0)) :
                    nb \in {neighborhoods(points, emb, threshold)}} : TRUE

\* self.db_manager.get_total_faces_count() (face_clusterer.py line 28).
\* DatabaseManager defines no method of that name (FacesTab does), so the
\* attribute lookup raises AttributeError.
get_total_faces_count_defined(fc) == [raised |-> FALSE, value |-> Cardinality(fc)]
get_total_faces_count(fc) == [raised |-> TRUE, value |-> 0]

\* str(n).zfill(digits) for n below 100000.
zfill(n, digits) ==
    LET str == ToString(n)
        pad == [k \in 0..4 |-> IF k = 0 THEN "" ELSE IF k = 1 THEN "0"
                               ELSE IF k = 2 THEN "00" ELSE IF k = 3 THEN "000"
                               ELSE "0000"]
        len == IF n < 10 THEN 1 ELSE IF n < 100 THEN 2 ELSE IF n < 1000 THEN 3
               ELSE IF n < 10000 THEN 4 ELSE 5
    IN IF len >= digits THEN str ELSE pad[digits - len] \o str

\* _get_next_cluster_id: the counter row plus one, padded by the number of
\* faces, and written back.  An exception leaves before the write.
get_next_cluster_id(st, fc) ==
    LET total_faces == get_total_faces_count(fc)
        last_cluster_id == get_setting(st, "last_cluster_id", 0)
        next_cluster_id == last_cluster_id + 1
        digits == IF total_faces.value < 10 THEN 1
                  ELSE IF total_faces.value < 100 THEN 2
                  ELSE IF total_faces.value < 1000 THEN 3
                  ELSE IF total_faces.value < 10000 THEN 4 ELSE 5
    IN IF total_faces.raised
       THEN [raised |-> TRUE, settings |-> st, formatted_id |-> ""]
       ELSE [raised |-> FALSE,
             settings |-> set_setting(st, "last_cluster_id", next_cluster_id),
             formatted_id |-> zfill(next_cluster_id, digits)]

\* The names _get_next_cluster_id can build in this model, for the pattern
\* ^Person_\d+$ of the viewer.
CandidateClusterNames == {"Person_" \o zfill(n, 1) : n \in 1..9}

\* apply_clusters_to_database: per cluster a new person Person_<N> that takes
\* the cluster's faces, each marked not is_person.  An exception anywhere
\* ends the loop and 0 is returned; what was committed stays.
RECURSIVE apply_clusters_to_database(_, _, _, _, _, _)
apply_clusters_to_database_creates_first(clusters, ps, fc, last, st, created_count) ==
    IF clusters = <<>>
    THEN [persons |-> ps, faces |-> fc, last |-> last, settings |-> st,
          created_count |-> created_count]
    ELSE LET face_ids == {Head(clusters)[k] : k \in 1..Len(Head(clusters))}
             n == get_next_cluster_id(st, fc)
             person_id == last + 1
         IN IF face_ids = {}
            THEN apply_clusters_to_database(Tail(clusters), ps, fc, last, st,
                                            created_count)
            ELSE IF n.raised
            THEN [persons |-> create_person(ps, last, "Person_"), faces |-> fc,
                  last |-> person_id, settings |-> st, created_count |-> 0]
            ELSE apply_clusters_to_database(
                     Tail(clusters),
                     create_person(ps, last, "Person_" \o n.formatted_id),
                     {IF r.id \in face_ids
                      THEN [r EXCEPT !.person_id = person_id, !.is_person = FALSE]
                      ELSE r : r \in fc},
                     person_id, n.settings, created_count + 1)
apply_clusters_to_database_moves_first(clusters, ps, fc, last, st, created_count) ==
    IF clusters = <<>>
    THEN [persons |-> ps, faces |-> fc, last |-> last, settings |-> st,
          created_count |-> created_count]
    ELSE LET face_ids == {Head(clusters)[k] : k \in 1..Len(Head(clusters))}
             n == get_next_cluster_id(st, fc)
             person_id == last
             moved == {IF r.id \in face_ids
                       THEN [r EXCEPT !.person_id = person_id, !.is_person = FALSE]
                       ELSE r : r \in fc}
         IN IF face_ids = {}
            THEN apply_clusters_to_database(Tail(clusters), ps, fc, last, st,
                                            created_count)
            ELSE IF n.raised
            THEN [persons |-> ps, faces |-> moved, last |-> last, settings |-> st,
                  created_count |-> 0]
            ELSE apply_clusters_to_database(
                     Tail(clusters),
                     create_person(ps, last, "Person_" \o n.formatted_id),
                     moved, person_id, n.settings, created_count + 1)
apply_clusters_to_database(clusters, ps, fc, last, st, created_count) ==
    IF clusters = <<>>
    THEN [persons |-> ps, faces |-> fc, last |-> last, settings |-> st,
          created_count |-> created_count]
    ELSE LET face_ids == {Head(clusters)[k] : k \in 1..Len(Head(clusters))}
             n == get_next_cluster_id(st, fc)
             person_id == last + 1
         IN IF face_ids = {}
            THEN apply_clusters_to_database(Tail(clusters), ps, fc, last, st,
                                            created_count)
            ELSE IF n.raised
            THEN [persons |-> ps, faces |-> fc, last |-> last, settings |-> st,
                  created_count |-> 0]
            ELSE apply_clusters_to_database(
                     Tail(clusters),
                     create_person(ps, last, "Person_" \o n.formatted_id),
                     {IF r.id \in face_ids
                      THEN [r EXCEPT !.person_id = person_id, !.is_person = FALSE]
                      ELSE r : r \in fc},
                     person_id, n.settings, created_count + 1)

\* ------------------------------------------------------------------- Init

\* An image file before add_image: what PIL reports as its size (<<>> when
\* Image.open raises), the width and height of the array cv2.imread or the
\* PIL fallback of detect_faces gives (<<>> when neither can load it), no
\* row (orig_width -1) and no faces yet.
NoImage == [size |-> <<>>, shape |-> <<>>, orig_width |-> -1, orig_height |-> -1,
            bboxes |-> {}]

\* No call of find_similar_faces yet.
NoQuery == [face_id |-> 0, threshold |-> 0, result |-> <<>>]

\* AlbumsTab.__init__ with its ExportManager (current_task None, here 0),
\* table albums, and the export folder on disk: the photo files copied
\* there, [dir, name, src], and the summary files, [dir, name,
\* single_count, group_count, total].  tasks holds the ExportTask objects made so far, copies
\* every copy a task has completed, reports what on_sync_finished was told,
\* missing the source files that are gone.
AlbumsTab ==
    [output_path |-> "", cancel_enabled |-> FALSE, albums |-> {},
     current_task |-> 0, tasks |-> <<>>, reports |-> {},
     missing |-> {}, files |-> {}, info |-> {}, copies |-> {}]

\* A fresh database (_init_db creates empty tables) and a fresh ScanManager.
Init ==
    /\ folders = {}
    /\ images = {}
    /\ persons = {}
    /\ faces = {}
    /\ sqlite_sequence = [folders |-> 0, images |-> 0, persons |-> 0, faces |-> 0]
    /\ tasks = <<>>
    /\ current_task = 0
    /\ add_folder_ret = [d \in DirSet |-> -1]
    /\ detected = [f \in FileSet |-> 0]
    /\ actions = 0
    /\ settings = [k \in SettingKeys |-> NoValue]
    /\ config = load_settings([k \in SettingKeys |-> NoValue])
    /\ ui = [handler |-> "none", ret |-> 0]
    /\ cl = [emb |-> <<>>, threshold |-> default_similarity_threshold,
             cluster_groups |-> <<>>, ran |-> FALSE, relisted |-> FALSE,
             raised |-> FALSE, similar |-> NoQuery]
    /\ ex = AlbumsTab
    /\ reg = NoImage

\* ----------------------------------------------------------- ScanManager

\* ScanTask.__init__, with the locals of _scan_folders the task carries
\* between its steps.  dirs and image_files hold what the loops have still
\* to visit; Head(image_files) is the file in hand.
ScanTask(folder_id) ==
    [pc |-> "run", folder_id |-> folder_id, is_cancelled |-> FALSE,
     root_folders |-> <<>>, dirs |-> <<>>, image_files |-> <<>>,
     current_folder_db_id |-> 0, image_id |-> 0, faces |-> <<>>,
     not_recognized_id |-> 0, total_images |-> 0, processed_images |-> 0,
     signal |-> "none"]

TaskIds == 1..Len(tasks)
Running(t) == tasks[t].pc \notin {"done", "killed"}

\* ScanManager.start_scan: refused (returns False, nothing changes) while
\* current_task is set and not cancelled; otherwise a new ScanTask replaces
\* it and goes to the pool (returns True).
start_scan(folder_id) ==
    /\ IF current_task # 0 /\ ~tasks[current_task].is_cancelled
       THEN UNCHANGED <<tasks, current_task, actions>>
       ELSE /\ actions < MaxUserActions
            /\ actions' = actions + 1
            /\ tasks' = Append(tasks, ScanTask(folder_id))
            /\ current_task' = Len(tasks) + 1
    /\ UNCHANGED <<dbvars, add_folder_ret, detected, cfgvars>>

\* ScanManager.cancel_scan -> ScanTask.cancel.
cancel_scan ==
    /\ IF current_task # 0
       THEN /\ actions < MaxUserActions
            /\ actions' = actions + 1
            /\ tasks' = [tasks EXCEPT ![current_task].is_cancelled = TRUE]
       ELSE UNCHANGED <<tasks, actions>>
    /\ UNCHANGED <<dbvars, current_task, add_folder_ret, detected, cfgvars>>

\* The process is killed and the application started again: the pool's
\* threads are gone, ScanManager.__init__ sets current_task = None, the
\* database file is as the last commit left it and MainWindow.__init__ makes
\* a new Config from it.
KillAndRestart ==
    /\ actions < MaxUserActions
    /\ actions' = actions + 1
    /\ tasks' = [t \in TaskIds |->
                   IF Running(t)
                   THEN [ScanTask(0) EXCEPT
                           !.pc = "killed", !.is_cancelled = tasks[t].is_cancelled]
                   ELSE tasks[t]]
    /\ current_task' = 0
    /\ config' = load_settings(settings)
    /\ UNCHANGED <<dbvars, add_folder_ret, detected, settings, ui, cl, ex, reg>>

\* ------------------------------------------------------------ folders tab

\* FoldersTab.add_folder: add_folder for the chosen directory and every
\* directory below it.
RECURSIVE AddFolders(_, _, _, _)
AddFolders(ds, fs, last, rets) ==
    IF ds = <<>> THEN [folders |-> fs, last |-> last, rets |-> rets]
    ELSE LET r == add_folder(fs, last, Head(ds))
         IN AddFolders(Tail(ds), r.folders, r.last,
                       [rets EXCEPT ![Head(ds)] = r.ret])

AddFolder(folder_path) ==
    LET r == AddFolders(Walk(folder_path), folders, sqlite_sequence.folders,
                        add_folder_ret)
    IN /\ actions < MaxUserActions
       /\ actions' = actions + 1
       /\ folders' = r.folders
       /\ sqlite_sequence' = [sqlite_sequence EXCEPT !.folders = r.last]
       /\ add_folder_ret' = r.rets
       /\ UNCHANGED <<images, persons, faces, tasks, current_task, detected,
                      cfgvars>>

\* FoldersTab.remove_selected_folder / on_delete_folder, for a folder the
\* tree shows.
RemoveFolder(folder_path) ==
    /\ actions < MaxUserActions
    /\ actions' = actions + 1
    /\ folder_exists(folders, folder_path)
    /\ folders' = remove_folder(folders, folder_path)
    /\ UNCHANGED <<images, persons, faces, sqlite_sequence, tasks, current_task,
                   add_folder_ret, detected, cfgvars>>

\* -------------------------------------------------------------- faces tab

\* get_person_stats: per person, COUNT of the faces LEFT JOINed to it.
face_count(fc, person_id) == Cardinality({r \in fc : r.person_id = person_id})

\* FacesTab.delete_person, reached from the context menu of any person in
\* the list (the Delete key refuses 'not recognized', the menu does not):
\* when a 'not recognized' person exists, the person's faces are moved to
\* it one by one and the person's row is deleted.
DeletePerson(person_id) ==
    LET not_recognized_id == get_person_by_name(persons, Sentinel)
        moved == {r.id : r \in get_person_faces(faces, images, person_id)}
    IN /\ actions < MaxUserActions
       /\ actions' = actions + 1
       /\ \E r \in persons : r.id = person_id
       /\ not_recognized_id # 0
       /\ faces' = {IF r.id \in moved
                    THEN [r EXCEPT !.person_id = not_recognized_id]
                    ELSE r : r \in faces}
       /\ persons' = {r \in persons : r.id # person_id}
       /\ UNCHANGED <<folders, images, sqlite_sequence, tasks, current_task,
                      add_folder_ret, detected, cfgvars>>

\* FacesTab.rename_person, reached with F2 on any person in the list: a
\* name another person already has merges into that person, any other name
\* renames and confirms.  ui.ret tells the message shown: 1 merged,
\* 2 renamed, 0 the error box.
RenamePerson(person_id, new_name) ==
    LET target_id == get_person_by_name(persons, new_name)
    IN /\ actions < MaxUserActions
       /\ actions' = actions + 1
       /\ \E r \in persons : r.id = person_id /\ r.name # new_name
       /\ IF target_id # 0 /\ target_id # person_id
          THEN /\ faces' = merge_persons_faces(faces, person_id, target_id)
               /\ persons' = merge_persons_persons(persons, person_id)
               /\ ui' = [handler |-> "rename_person",
                         ret |-> IF merge_persons_ret(persons, person_id)
                                 THEN 1 ELSE 0]
          ELSE /\ persons' = confirm_person(
                                 update_person_name(persons, person_id, new_name),
                                 person_id)
               /\ ui' = [handler |-> "rename_person", ret |-> 2]
               /\ UNCHANGED faces
       /\ UNCHANGED <<folders, images, sqlite_sequence, tasks, current_task,
                      add_folder_ret, detected, settings, config, cl, ex, reg>>

\* FacesTab.delete_empty_persons: every person get_person_stats counts no
\* face for is deleted, whatever its name.
DeleteEmptyPersons ==
    LET empty_persons == {r \in persons : face_count(faces, r.id) = 0}
    IN /\ actions < MaxUserActions
       /\ actions' = actions + 1
       /\ empty_persons # {}
       /\ persons' = persons \ empty_persons
       /\ UNCHANGED <<folders, images, faces, sqlite_sequence, tasks,
                      current_task, add_folder_ret, detected, cfgvars>>

\* FacesTab.on_face_confirmed (the tick on a face): a face of a person named
\* as the sentinel opens the name dialog, and an accepted non-empty name
\* makes a new confirmed person holding this face; a face of any other
\* person is marked is_person.  face_info is the face JOINed to its person.
ConfirmFace(face_id, new_name) ==
    /\ actions < MaxUserActions
    /\ actions' = actions + 1
    /\ \E f \in faces, p \in persons :
         /\ f.id = face_id /\ p.id = f.person_id
         /\ IF p.name = Sentinel
            THEN LET new_person_id == sqlite_sequence.persons + 1
                 IN /\ persons' = confirm_person(
                                      create_person(persons, sqlite_sequence.persons,
                                                    new_name),
                                      new_person_id)
                    /\ sqlite_sequence' =
                           [sqlite_sequence EXCEPT !.persons = new_person_id]
                    /\ faces' = set_face_person_status(
                                    move_face_to_person(faces, face_id, new_person_id),
                                    face_id, TRUE)
                    /\ ui' = [handler |-> "on_face_confirmed", ret |-> new_person_id]
            ELSE /\ faces' = set_face_person_status(faces, face_id, TRUE)
                 /\ ui' = [handler |-> "on_face_confirmed", ret |-> 0]
                 /\ UNCHANGED <<persons, sqlite_sequence>>
    /\ UNCHANGED <<folders, images, tasks, current_task, add_folder_ret, detected,
                   settings, config, cl, ex, reg>>

\* FacesTab.on_face_rejected (the cross on a face): a face of a person named
\* as the sentinel is marked not is_person; any other face goes to the
\* sentinel get_person_by_name finds, if it finds one.
RejectFace(face_id) ==
    LET not_recognized_id == get_person_by_name(persons, Sentinel)
    IN /\ actions < MaxUserActions
       /\ actions' = actions + 1
       /\ \E f \in faces, p \in persons :
            /\ f.id = face_id /\ p.id = f.person_id
            /\ IF p.name = Sentinel
               THEN faces' = set_face_person_status(faces, face_id, FALSE)
               ELSE /\ not_recognized_id # 0
                    /\ faces' = set_face_person_status(
                                    move_face_to_person(faces, face_id,
                                                        not_recognized_id),
                                    face_id, FALSE)
       /\ ui' = [handler |-> "on_face_rejected", ret |-> 0]
       /\ UNCHANGED <<folders, images, persons, sqlite_sequence, tasks,
                      current_task, add_folder_ret, detected, settings, config, cl, ex, reg>>

\* PhotoViewer.edit_face_name -> _update_face_name: the name typed for one
\* face in the viewer.  face_data is what the viewer loaded for the image,
\* taken here as the store's present rows.
MatchesPersonPattern(name) == name \in CandidateClusterNames

UpdateFaceName(face_id, new_name) ==
    LET target_person_id == get_person_by_name(persons, new_name)
        new_person_id == sqlite_sequence.persons + 1
    IN /\ actions < MaxUserActions
       /\ actions' = actions + 1
       /\ \E f \in faces, p \in persons :
            /\ f.id = face_id /\ p.id = f.person_id /\ p.name # new_name
            /\ IF target_person_id # 0
               THEN \* an existing person: the face moves there
                    /\ faces' = move_face_to_person(faces, face_id, target_person_id)
                    /\ UNCHANGED <<persons, sqlite_sequence>>
               ELSE IF MatchesPersonPattern(p.name)
               THEN \* a cluster person: renamed, confirmed, its faces confirmed
                    /\ persons' = confirm_person(
                                      update_person_name(persons, p.id, new_name), p.id)
                    /\ faces' = {IF r \in get_person_faces(faces, images, p.id)
                                 THEN [r EXCEPT !.is_person = TRUE] ELSE r : r \in faces}
                    /\ UNCHANGED sqlite_sequence
               ELSE IF p.name = Sentinel
               THEN \* a sentinel's face: a new confirmed person for it
                    /\ persons' = confirm_person(
                                      create_person(persons, sqlite_sequence.persons,
                                                    new_name),
                                      new_person_id)
                    /\ faces' = set_face_person_status(
                                    move_face_to_person(faces, face_id, new_person_id),
                                    face_id, TRUE)
                    /\ sqlite_sequence' =
                           [sqlite_sequence EXCEPT !.persons = new_person_id]
               ELSE \* a named person's face: a new person, not confirmed
                    /\ persons' = create_person(persons, sqlite_sequence.persons,
                                                new_name)
                    /\ faces' = move_face_to_person(faces, face_id, new_person_id)
                    /\ sqlite_sequence' =
                           [sqlite_sequence EXCEPT !.persons = new_person_id]
       /\ ui' = [handler |-> "edit_face_name", ret |-> 1]
       /\ UNCHANGED <<folders, images, tasks, current_task, add_folder_ret,
                      detected, settings, config, cl, ex, reg>>

\* FacesTab.on_similarity_threshold_changed: a number in [0, 1] typed into
\* the threshold field goes to Config.set.
SetSimilarityThreshold(new_value) ==
    LET r == Config_set(config, settings, "scan.similarity_threshold", new_value)
    IN /\ actions < MaxUserActions
       /\ actions' = actions + 1
       /\ config' = r.config
       /\ settings' = r.settings
       /\ ui' = [handler |-> "on_similarity_threshold_changed", ret |-> new_value]
       /\ UNCHANGED <<dbvars, tasks, current_task, add_folder_ret, detected, cl, ex, reg>>

\* FacesTab.cluster_faces (the "cluster" button, confirmed): cluster_faces,
\* then apply_clusters_to_database; the message box shows created_persons.
ClusterFaces ==
    LET threshold == Config_get(config, settings, "scan.similarity_threshold",
                                default_similarity_threshold)
        face_data == get_all_face_embeddings(faces, persons)
        clusters == cluster_faces([i \in 1..Len(face_data) |-> face_data[i].id],
                                  [id \in Ids(faces) |->
                                      ModelEmbedding((CHOOSE r \in faces : r.id = id).det)],
                                  threshold)
        r == apply_clusters_to_database(clusters, persons, faces,
                                        sqlite_sequence.persons, settings, 0)
    IN /\ actions < MaxUserActions
       /\ actions' = actions + 1
       /\ persons' = r.persons
       /\ faces' = r.faces
       /\ sqlite_sequence' = [sqlite_sequence EXCEPT !.persons = r.last]
       /\ settings' = r.settings
       /\ ui' = [handler |-> "cluster_faces", ret |-> r.created_count]
       /\ UNCHANGED <<folders, images, tasks, current_task, add_folder_ret,
                      detected, config, cl, ex, reg>>

\* ------------------------------------------------- ScanTask._scan_folders

\* A step of a pool thread changes its task's locals; it reads and writes
\* neither the Config nor the table settings, and shows no dialog.
SetTask(t, r) == tasks' = [tasks EXCEPT ![t] = r] /\ UNCHANGED cfgvars

\* _scan_folders returns and run() emits scan_finished.  The locals are gone
\* and nothing reads folder_id again: only is_cancelled, which start_scan
\* reads, is kept.
Finished(T) ==
    [ScanTask(0) EXCEPT !.pc = "done", !.is_cancelled = T.is_cancelled,
                        !.signal = "scan_finished"]

\* Lines 44-67: the folders to scan, one chosen or all registered.
ResolveFolders(t) ==
    LET T == tasks[t]
        folder_info == get_folder_by_id(folders, T.folder_id)
        root_folders == IF T.folder_id # 0
                        THEN (IF folder_info # <<>> THEN <<folder_info>> ELSE <<>>)
                        ELSE get_all_folders(folders)
    IN /\ T.pc = "run"
       /\ SetTask(t, IF root_folders = <<>>
                     THEN Finished(T)
                     ELSE [T EXCEPT !.pc = "get_person", !.root_folders = root_folders])
       /\ UNCHANGED <<dbvars, current_task, add_folder_ret, detected, actions>>

\* Line 70: get_person_by_name('not recognized').
GetSentinel(t) ==
    LET T == tasks[t]
        id == get_person_by_name(persons, Sentinel)
    IN /\ T.pc = "get_person"
       /\ SetTask(t, [T EXCEPT !.not_recognized_id = id,
                               !.pc = IF id # 0 THEN "count" ELSE "create_person"])
       /\ UNCHANGED <<dbvars, current_task, add_folder_ret, detected, actions>>

\* Lines 71-73: create_person('not recognized') when the lookup found none.
CreateSentinel(t) ==
    LET T == tasks[t]
    IN /\ T.pc = "create_person"
       /\ persons' = create_person(persons, sqlite_sequence.persons, Sentinel)
       /\ sqlite_sequence' = [sqlite_sequence EXCEPT !.persons = @ + 1]
       /\ SetTask(t, [T EXCEPT !.not_recognized_id = sqlite_sequence.persons + 1,
                               !.pc = "count"])
       /\ UNCHANGED <<folders, images, faces, current_task, add_folder_ret,
                      detected, actions>>

\* The directories both passes walk: os.walk of each root folder in turn.
RECURSIVE WalkAll(_)
WalkAll(root_folders) ==
    IF root_folders = <<>> THEN <<>>
    ELSE Walk(Head(root_folders)[2]) \o WalkAll(Tail(root_folders))

RECURSIVE RegisterDirs(_, _, _)
RegisterDirs(ds, fs, last) ==
    IF ds = <<>> THEN [folders |-> fs, last |-> last]
    ELSE LET r == get_or_create_folder_db_id(fs, last, Head(ds))
         IN RegisterDirs(Tail(ds), r.folders, r.last)

RECURSIVE CountFiles(_)
CountFiles(ds) ==
    IF ds = <<>> THEN 0
    ELSE Len(get_image_files(Head(ds))) + CountFiles(Tail(ds))

\* Lines 75-99: the counting pass.  It registers every directory it walks
\* and adds up len(get_image_files(dir)) per directory.  The processing
\* pass walks the same directories: dirs holds them in its order.
CountImages(t) ==
    LET T == tasks[t]
        ds == WalkAll(T.root_folders)
        r == RegisterDirs(ds, folders, sqlite_sequence.folders)
        total_images == CountFiles(ds)
    IN /\ T.pc = "count"
       /\ folders' = r.folders
       /\ sqlite_sequence' = [sqlite_sequence EXCEPT !.folders = r.last]
       /\ SetTask(t, IF total_images = 0
                     THEN Finished(T)
                     ELSE [T EXCEPT !.total_images = total_images, !.dirs = ds,
                                    !.pc = "loop"])
       /\ UNCHANGED <<images, persons, faces, current_task, add_folder_ret,
                      detected, actions>>

\* Lines 102-127: the heads of the loops over root folders and over the
\* directories os.walk gives, reached when no file of the last directory is
\* left.  is_cancelled is polled at both heads: a cancelled task breaks out
\* of both loops and returns.
NextDir(t) ==
    LET T == tasks[t]
        r == get_or_create_folder_db_id(folders, sqlite_sequence.folders, Head(T.dirs))
    IN /\ T.pc = "loop"
       /\ T.image_files = <<>>
       /\ IF T.dirs = <<>> \/ T.is_cancelled
          THEN /\ SetTask(t, Finished(T))
               /\ UNCHANGED <<folders, sqlite_sequence>>
          ELSE /\ folders' = r.folders
               /\ sqlite_sequence' = [sqlite_sequence EXCEPT !.folders = r.last]
               /\ SetTask(t, IF r.ret = 0
                             THEN [T EXCEPT !.dirs = Tail(T.dirs)]
                             ELSE [T EXCEPT !.current_folder_db_id = r.ret,
                                            !.image_files = get_image_files(Head(T.dirs)),
                                            !.dirs = Tail(T.dirs)])
       /\ UNCHANGED <<images, persons, faces, current_task, add_folder_ret,
                      detected, actions>>

\* The head of the loop over a directory's files without the cancel poll.
NextFile_no_poll(t) ==
    LET T == tasks[t]
    IN /\ T.pc = "loop"
       /\ T.image_files # <<>>
       /\ SetTask(t,
            IF image_already_processed(images, Head(T.image_files))
            THEN [T EXCEPT !.processed_images = @ + 1,
                           !.image_files = Tail(T.image_files)]
            ELSE [T EXCEPT !.processed_images = @ + 1,
                           !.image_id = 0,
                           !.pc = "add_image"])
       /\ UNCHANGED <<dbvars, current_task, add_folder_ret, detected, actions>>

\* Lines 129-147: the head of the loop over a directory's files: the cancel
\* poll (a cancelled task breaks out of all three loops and returns), the
\* progress event, the image_already_processed skip.
NextFile(t) ==
    LET T == tasks[t]
    IN /\ T.pc = "loop"
       /\ T.image_files # <<>>
       /\ SetTask(t,
            IF T.is_cancelled
            THEN Finished(T)
            ELSE IF image_already_processed(images, Head(T.image_files))
                 THEN [T EXCEPT !.processed_images = @ + 1,
                                !.image_files = Tail(T.image_files)]
                 ELSE [T EXCEPT !.processed_images = @ + 1,
                                !.image_id = 0,
                                !.pc = "add_image"])
       /\ UNCHANGED <<dbvars, current_task, add_folder_ret, detected, actions>>

\* Lines 150-165: os.stat and add_image; a falsy id skips the file.  Inside
\* the try block only os.stat and update_image_status can raise (add_image,
\* detect_faces and add_face catch everything themselves): with a static
\* file tree and storage calls that succeed, the except branch of lines
\* 201-205, the only writer of status 'error', is never entered.
AddImage(t) ==
    LET T == tasks[t]
        r == add_image(images, sqlite_sequence.images, T.current_folder_db_id,
                       Head(T.image_files))
    IN /\ T.pc = "add_image"
       /\ images' = r.images
       /\ sqlite_sequence' = [sqlite_sequence EXCEPT !.images = r.last]
       /\ SetTask(t, IF r.ret = 0
                     THEN [T EXCEPT !.image_id = r.ret,
                                    !.image_files = Tail(T.image_files),
                                    !.pc = "loop"]
                     ELSE [T EXCEPT !.image_id = r.ret, !.pc = "processing"])
       /\ UNCHANGED <<folders, persons, faces, current_task, add_folder_ret,
                      detected, actions>>

\* Detection entered without the status write of line 168.
MarkProcessing_skipped(t) ==
    LET T == tasks[t]
    IN /\ T.pc = "processing"
       /\ SetTask(t, [T EXCEPT !.pc = "detect"])
       /\ UNCHANGED <<dbvars, current_task, add_folder_ret, detected, actions>>

\* Line 168: update_image_status(image_id, 'processing').
MarkProcessing(t) ==
    LET T == tasks[t]
    IN /\ T.pc = "processing"
       /\ images' = update_image_status(images, T.image_id, "processing")
       /\ SetTask(t, [T EXCEPT !.pc = "detect"])
       /\ UNCHANGED <<folders, persons, faces, sqlite_sequence, current_task,
                      add_folder_ret, detected, actions>>

\* Line 172: faces = face_analyzer.detect_faces(image_path).
Detect(t) ==
    LET T == tasks[t]
        image_path == Head(T.image_files)
    IN /\ T.pc = "detect"
       /\ detected' = [detected EXCEPT ![image_path] = @ + 1]
       /\ SetTask(t, [T EXCEPT !.faces = detect_faces(image_path), !.pc = "save"])
       /\ UNCHANGED <<dbvars, current_task, add_folder_ret, actions>>

\* Lines 177-193: add_face for the next detection, owned by not_recognized_id.
AddFace(t) ==
    LET T == tasks[t]
    IN /\ T.pc = "save"
       /\ T.faces # <<>>
       /\ faces' = add_face(faces, sqlite_sequence.faces, T.image_id,
                            T.not_recognized_id, Head(T.faces))
       /\ sqlite_sequence' = [sqlite_sequence EXCEPT !.faces = @ + 1]
       /\ SetTask(t, [T EXCEPT !.faces = Tail(T.faces)])
       /\ UNCHANGED <<folders, images, persons, current_task, add_folder_ret,
                      detected, actions>>

\* Line 198: update_image_status(image_id, 'completed'), then the next file.
MarkCompleted(t) ==
    LET T == tasks[t]
    IN /\ T.pc = "save"
       /\ T.faces = <<>>
       /\ images' = update_image_status(images, T.image_id, "completed")
       /\ SetTask(t, [T EXCEPT !.image_files = Tail(T.image_files), !.pc = "loop"])
       /\ UNCHANGED <<folders, persons, faces, sqlite_sequence, current_task,
                      add_folder_ret, detected, actions>>

\* One step of ScanTask t on its pool thread.
TaskStep(t) ==
    \/ ResolveFolders(t)
    \/ GetSentinel(t)
    \/ CreateSentinel(t)
    \/ CountImages(t)
    \/ NextDir(t)
    \/ NextFile(t)
    \/ AddImage(t)
    \/ MarkProcessing(t)
    \/ Detect(t)
    \/ AddFace(t)
    \/ MarkCompleted(t)

\* ------------------------------------------------------- specifications

\* The scan pipeline with the folders tab and the faces tab's person list.
Next ==
    \/ \E folder_id \in {0} \cup {r.id : r \in folders} : start_scan(folder_id)
    \/ cancel_scan
    \/ KillAndRestart
    \/ \E folder_path \in DirSet : AddFolder(folder_path)
    \/ \E folder_path \in DirSet : RemoveFolder(folder_path)
    \/ \E person_id \in {r.id : r \in persons} : DeletePerson(person_id)
    \/ \E person_id \in {r.id : r \in persons}, new_name \in Names :
          RenamePerson(person_id, new_name)
    \/ DeleteEmptyPersons
    \/ \E face_id \in {r.id : r \in faces}, new_name \in Names :
          ConfirmFace(face_id, new_name)
    \/ \E face_id \in {r.id : r \in faces} : RejectFace(face_id)
    \/ \E face_id \in {r.id : r \in faces}, new_name \in Names :
          UpdateFaceName(face_id, new_name)
    \/ \E new_value \in Thresholds : SetSimilarityThreshold(new_value)
    \/ ClusterFaces
    \/ \E t \in TaskIds : TaskStep(t)

Spec == Init /\ [][Next]_vars

\* cluster_faces on its own, as a function of what it reads: the rows
\* get_all_face_embeddings returns (no ORDER BY: any order of the same rows)
\* and the threshold Config holds.  The store has MaxFaces faces of the
\* sentinel with any of the Embeddings.
MaxFaces == 3
Embeddings == {<<>>, <<1, 0>>, <<1, 1>>, <<0, 1>>}
Orders == {o \in [1..MaxFaces -> 1..MaxFaces] : \A i, j \in 1..MaxFaces : o[i] = o[j] => i = j}

ClusterInit ==
    /\ folders = {} /\ images = {} /\ persons = {} /\ faces = {}
    /\ sqlite_sequence = [folders |-> 0, images |-> 0, persons |-> 0, faces |-> 0]
    /\ tasks = <<>> /\ current_task = 0
    /\ add_folder_ret = [d \in DirSet |-> -1]
    /\ detected = [f \in FileSet |-> 0]
    /\ actions = 0
    /\ settings = [k \in SettingKeys |-> NoValue]
    /\ config = load_settings([k \in SettingKeys |-> NoValue])
    /\ ui = [handler |-> "none", ret |-> 0]
    /\ \E emb \in [1..MaxFaces -> Embeddings] :
         cl = [emb |-> emb, threshold |-> default_similarity_threshold,
               cluster_groups |-> <<>>, ran |-> FALSE, relisted |-> FALSE,
               raised |-> FALSE, similar |-> NoQuery]
    /\ ex = AlbumsTab
    /\ reg = NoImage

\* One run of cluster_faces: the store returns the rows in some order, the
\* threshold is what Config holds now.  Remembered with the result: whether
\* the run before it, at the same threshold, listed the groups or their
\* faces differently, and whether the run before it had a lower threshold.
RunClusterFaces(order, threshold) ==
    \E cluster_groups \in {cluster_faces(order, cl.emb, threshold)} :
       /\ cl' = [cl EXCEPT !.threshold = threshold,
                           !.cluster_groups = cluster_groups,
                           !.ran = TRUE,
                           !.relisted = /\ cl.ran /\ threshold = cl.threshold
                                        /\ cluster_groups # cl.cluster_groups,
                           !.raised = cl.ran /\ threshold > cl.threshold]
       /\ UNCHANGED <<dbvars, tasks, current_task, add_folder_ret, detected,
                      actions, settings, config, ui, ex, reg>>

ClusterNext == \E order \in Orders, threshold \in Thresholds : RunClusterFaces(order, threshold)

ClusterSpec == ClusterInit /\ [][ClusterNext]_vars

\* ------------------------------------------------------ similarity lookup

\* The rows find_similar_faces reads (database.py lines 419-429): four
\* columns, f.id, f.embedding, p.name, f.is_person, of the sentinel's faces,
\* in the order the store gives them.
face_rows(order, emb) ==
    [i \in 1..Len(order) |-> <<order[i], emb[order[i]], Sentinel, FALSE>>]

\* similarity(t, a) >= similarity(t, b) for vectors of non-zero norm, in
\* exact arithmetic (lines 195-199: both divided by their norm, then dot).
more_similar(t, a, b) ==
    LET x == dot(t, a)
        y == dot(t, b)
    IN IF x >= 0 /\ y < 0 THEN TRUE
       ELSE IF x < 0 /\ y >= 0 THEN FALSE
       ELSE IF x >= 0 THEN x * x * dot(b, b) >= y * y * dot(a, a)
       ELSE x * x * dot(b, b) <= y * y * dot(a, a)

\* Line 209, similar_faces.sort(key = similarity, reverse = True): a stable
\* sort, so rows of equal similarity keep the order they were found in.
sort_by_similarity(found, t, emb) ==
    CHOOSE s \in [1..Len(found) -> {found[i] : i \in 1..Len(found)}] :
        /\ \A i, j \in 1..Len(found) : s[i] = s[j] => i = j
        /\ \A i, j \in 1..Len(found) :
             i < j => /\ more_similar(t, emb[s[i]], emb[s[j]])
                      /\ more_similar(t, emb[s[j]], emb[s[i]]) =>
                           \E k, l \in 1..Len(found) :
                               k < l /\ found[k] = s[i] /\ found[l] = s[j]

\* find_similar_faces (lines 171-214).  No embedding of the target: [].
\* The loop header of line 191 unpacks each row into three names; a row of
\* another length raises ValueError on the first iteration, caught at line
\* 212, and [] is returned.  Otherwise the other faces with an embedding and
\* similarity >= threshold, sorted.
find_similar_faces(face_id, threshold, face_data, emb) ==
    IF emb[face_id] = <<>> THEN <<>>
    ELSE IF \E i \in 1..Len(face_data) : Len(face_data[i]) # 3 THEN <<>>
    ELSE LET ids == [i \in 1..Len(face_data) |-> face_data[i][1]]
             found == SelectSeq(ids, LAMBDA q :
                         /\ q # face_id
                         /\ emb[q] # <<>>
                         /\ similarity_ge(emb[face_id], emb[q], threshold))
         IN sort_by_similarity(found, emb[face_id], emb)

\* One call of find_similar_faces, its arguments and result remembered.
FindSimilarFaces(face_id, threshold, order) ==
    /\ cl' = [cl EXCEPT !.similar =
                 [face_id |-> face_id, threshold |-> threshold,
                  result |-> find_similar_faces(face_id, threshold,
                                                face_rows(order, cl.emb), cl.emb)]]
    /\ UNCHANGED <<dbvars, tasks, current_task, add_folder_ret, detected,
                   actions, settings, config, ui, ex, reg>>

SimilarNext ==
    \E face_id \in 1..MaxFaces, threshold \in Thresholds, order \in Orders :
        FindSimilarFaces(face_id, threshold, order)

\* The store of ClusterInit, queried.
SimilarSpec == ClusterInit /\ [][SimilarNext]_vars

\* ---------------------------------------------------------- ExportManager

\* ExportTask objects a run of the model makes.
MaxExportTasks == 2

\* The photo files of the export runs; os.path.basename (what add_image
\* stores as file_name) and os.path.splitext of their names; os.path.join.
ExportFiles == <<"/pics/a.jpg", "/pics/sub/a.jpg", "/pics/sub/b.jpg">>
file_name(file_path) == IF file_path = "/pics/sub/b.jpg" THEN "b.jpg" ELSE "a.jpg"
splitext(filename) == IF filename = "b.jpg" THEN <<"b", ".jpg">> ELSE <<"a", ".jpg">>
join(dir, name) == dir \o "/" \o name

\* The binary collation ORDER BY p.name uses, for the names at hand.
NameOrder == <<"Alice", "Bob", "Person_1", "not recognized">>
NameRank(name) == CHOOSE k \in 1..Len(NameOrder) : NameOrder[k] = name

\* set_album_output_path: INSERT OR REPLACE INTO albums (person_id UNIQUE).
set_album_output_path(albums, person_id, output_path) ==
    {a \in albums : a.person_id # person_id}
        \cup {[person_id |-> person_id, output_path |-> output_path]}

\* get_all_persons(include_unconfirmed=False): the confirmed persons.
get_all_persons_confirmed(ps) == {p \in ps : p.is_confirmed}

\* get_persons_with_albums: persons JOIN albums WHERE is_confirmed ORDER BY
\* name; rows of equal name in rowid order.
RECURSIVE SortByName(_)
SortByName(rows) ==
    IF rows = {} THEN <<>>
    ELSE LET r == CHOOSE x \in rows : \A y \in rows :
                      \/ NameRank(x.name) < NameRank(y.name)
                      \/ NameRank(x.name) = NameRank(y.name) /\ x.id <= y.id
         IN <<r>> \o SortByName(rows \ {r})
get_persons_with_albums(ps, albums) ==
    SortByName({[id |-> x[1].id, name |-> x[1].name, output_path |-> x[2].output_path] :
                   x \in {y \in ps \X albums : /\ y[1].is_confirmed
                                               /\ y[2].person_id = y[1].id}})

\* The rows of a photo query as the list the task walks through.
PhotoList(paths) == SelectSeq(ExportFiles, LAMBDA f : f \in paths)

NoPath == [dir |-> "", name |-> ""]

\* ExportTask.__init__, with the locals of _export_albums and
\* _export_person_album the task carries between its steps, the outcome
\* run() emits, and whether the run left a loop because of is_cancelled.
ExportTask(person_id) ==
    [person_id |-> person_id, is_cancelled |-> FALSE, pc |-> "start",
     persons |-> <<>>, single_photos |-> <<>>, group_photos |-> <<>>,
     single_count |-> 0, group_count |-> 0, target_path |-> NoPath,
     success |-> FALSE, message |-> "", stopped |-> FALSE]

ExportTaskIds == 1..Len(ex.tasks)
ExportRunning(t) == ex.tasks[t].pc # "done"

\* A task that has left _export_albums: only what run() still needs.
Returned(T, success, message, stopped) ==
    [T EXCEPT !.pc = "finish", !.success = success, !.message = message,
              !.stopped = stopped,
              !.persons = <<>>, !.single_photos = <<>>, !.group_photos = <<>>,
              !.single_count = 0, !.group_count = 0, !.target_path = NoPath]

\* ExportManager.is_exporting; activeThreadCount() counts the tasks whose
\* run() has not returned.
is_exporting ==
    /\ ex.current_task # 0
    /\ ~ex.tasks[ex.current_task].is_cancelled
    /\ \E t \in ExportTaskIds : ExportRunning(t)

\* AlbumsTab.set_output_path with an existing folder chosen: the path is
\* kept and written to albums for every confirmed person.
RECURSIVE set_all_album_output_paths(_, _, _)
set_all_album_output_paths(albums, ids, output_path) ==
    IF ids = {} THEN albums
    ELSE LET person_id == CHOOSE i \in ids : TRUE
         IN set_all_album_output_paths(
                set_album_output_path(albums, person_id, output_path),
                ids \ {person_id}, output_path)
SetOutputPath ==
    /\ ex.output_path = ""
    /\ ex' = [ex EXCEPT
                !.output_path = "/out",
                !.albums = set_all_album_output_paths(
                               ex.albums, Ids(get_all_persons_confirmed(persons)), "/out")]
    /\ UNCHANGED <<dbvars, tasks, current_task, add_folder_ret, detected,
                   actions, settings, config, ui, cl, reg>>

\* AlbumsTab.start_sync -> ExportManager.start_export.  person_id is 0 from
\* the toolbar button (all albums) or the id of a row of the persons list.
\* The thread pool has a free thread for the new task.
StartSync(person_id) ==
    /\ ex.output_path # ""
    /\ ~is_exporting
    /\ Len(ex.tasks) < MaxExportTasks
    /\ \/ person_id = 0
       \/ \E k \in 1..Len(get_persons_with_albums(persons, ex.albums)) :
             get_persons_with_albums(persons, ex.albums)[k].id = person_id
    /\ IF ex.current_task # 0 /\ ~ex.tasks[ex.current_task].is_cancelled
       THEN ex' = [ex EXCEPT
                     !.cancel_enabled = FALSE,
                     !.reports = @ \cup {[task |-> 0, success |-> FALSE,
                                          message |-> "start_error",
                                          stopped |-> FALSE]}]
       ELSE ex' = [ex EXCEPT
                     !.cancel_enabled = TRUE,
                     !.tasks = Append(@, ExportTask(person_id)),
                     !.current_task = Len(ex.tasks) + 1]
    /\ UNCHANGED <<dbvars, tasks, current_task, add_folder_ret, detected,
                   actions, settings, config, ui, cl, reg>>

\* AlbumsTab.cancel_sync -> ExportManager.cancel_export, then
\* on_sync_finished(False, ...).
CancelSync ==
    /\ ex.cancel_enabled
    /\ ex' = [ex EXCEPT
                !.tasks = IF ex.current_task = 0 THEN @
                          ELSE [@ EXCEPT ![ex.current_task].is_cancelled = TRUE],
                !.current_task = 0,
                !.cancel_enabled = FALSE,
                !.reports = @ \cup {[task |-> 0, success |-> FALSE,
                                     message |-> "sync_cancelled",
                                     stopped |-> FALSE]}]
    /\ UNCHANGED <<dbvars, tasks, current_task, add_folder_ret, detected,
                   actions, settings, config, ui, cl, reg>>

SetExportTask(t, r) ==
    /\ ex' = [ex EXCEPT !.tasks[t] = r]
    /\ UNCHANGED <<dbvars, tasks, current_task, add_folder_ret, detected,
                   actions, settings, config, ui, cl, reg>>

\* _export_albums reading every row of persons, with the tab's folder.
ExportBegin_every_person(t) ==
    LET T == ex.tasks[t]
        rows == SortByName({[id |-> p.id, name |-> p.name, output_path |-> ex.output_path] :
                               p \in persons})
    IN /\ T.pc = "start"
       /\ SetExportTask(t,
            IF T.person_id # 0 THEN Returned(T, FALSE, "export_error", FALSE)
            ELSE IF rows = <<>> THEN Returned(T, FALSE, "no_persons", FALSE)
            ELSE [T EXCEPT !.persons = rows, !.pc = "person"])

\* _export_albums lines 42-60.  With a person_id the list holds one pair,
\* and unpacking it into four names at line 57 raises ValueError, which
\* line 82 turns into a failure.
ExportBegin(t) ==
    LET T == ex.tasks[t]
        rows == get_persons_with_albums(persons, ex.albums)
    IN /\ T.pc = "start"
       /\ SetExportTask(t,
            IF T.person_id # 0 THEN Returned(T, FALSE, "export_error", FALSE)
            ELSE IF rows = <<>> THEN Returned(T, FALSE, "no_persons", FALSE)
            ELSE [T EXCEPT !.persons = rows, !.pc = "person"])

\* Lines 63-66 and 76-80, then _export_person_album lines 90-100 for the
\* next person: the two folders are made and the photos are read.
ExportPerson(t) ==
    LET T == ex.tasks[t]
        single_photos == PhotoList(get_single_photos(faces, images, Head(T.persons).id))
        group_photos ==
            PhotoList(get_photos_with_multiple_faces(faces, images, Head(T.persons).id))
    IN /\ T.pc = "person"
       /\ SetExportTask(t,
            IF T.persons = <<>> THEN Returned(T, TRUE, "completed", FALSE)
            ELSE IF T.is_cancelled THEN Returned(T, TRUE, "completed", TRUE)
            ELSE [T EXCEPT !.single_photos = single_photos,
                           !.group_photos = group_photos,
                           !.single_count = Len(single_photos),
                           !.group_count = Len(group_photos),
                           !.pc = "single"])

album_path(T) == join(Head(T.persons).output_path, Head(T.persons).name)
friends_path(T) == join(album_path(T), "with_friends")
exists(files, path) == \E f \in files : f.dir = path.dir /\ f.name = path.name

\* _copy_photo lines 145-154: the first of filename, base_1.ext, base_2.ext,
\* ... that does not exist in target_dir.
RECURSIVE free_target_path(_, _, _, _)
free_target_path(files, target_dir, filename, counter) ==
    LET name == IF counter = 0 THEN filename
                ELSE splitext(filename)[1] \o "_" \o ToString(counter)
                         \o splitext(filename)[2]
    IN IF exists(files, [dir |-> target_dir, name |-> name])
       THEN free_target_path(files, target_dir, filename, counter + 1)
       ELSE [dir |-> target_dir, name |-> name]

\* The loops of lines 103-114 and 117-126 up to the existence test of
\* _copy_photo: the cancel check, then the target path is chosen.
ExportNextSingle(t) ==
    LET T == ex.tasks[t]
    IN /\ T.pc = "single"
       /\ SetExportTask(t,
            IF T.single_photos = <<>> THEN [T EXCEPT !.pc = "group"]
            ELSE IF T.is_cancelled THEN Returned(T, FALSE, "cancelled", TRUE)
            ELSE [T EXCEPT !.pc = "copy_single",
                           !.target_path =
                               free_target_path(ex.files, album_path(T),
                                                file_name(Head(T.single_photos)), 0)])

\* shutil.copy2 (line 156) writes the file at the chosen path, over
\* whatever is there by now.  A missing source raises; lines 158-159 raise
\* again, lines 138-140 return False and lines 73-74 end the run.
copy2(files, src, target_path) ==
    {f \in files : f.dir # target_path.dir \/ f.name # target_path.name}
        \cup {[dir |-> target_path.dir, name |-> target_path.name, src |-> src]}
ExportCopy(t) ==
    LET T == ex.tasks[t]
        single == T.pc = "copy_single"
        src == IF single THEN Head(T.single_photos) ELSE Head(T.group_photos)
    IN /\ T.pc \in {"copy_single", "copy_group"}
       /\ IF src \in ex.missing
          THEN ex' = [ex EXCEPT !.tasks[t] = Returned(T, FALSE, "album_error", FALSE)]
          ELSE ex' = [ex EXCEPT
                        !.files = copy2(ex.files, src, T.target_path),
                        !.copies = @ \cup {[task |-> t, src |-> src,
                                            dir |-> T.target_path.dir,
                                            name |-> T.target_path.name]},
                        !.tasks[t] =
                            IF single
                            THEN [T EXCEPT !.single_photos = Tail(@),
                                           !.target_path = NoPath, !.pc = "single"]
                            ELSE [T EXCEPT !.group_photos = Tail(@),
                                           !.target_path = NoPath, !.pc = "group"]]
       /\ UNCHANGED <<dbvars, tasks, current_task, add_folder_ret, detected,
                      actions, settings, config, ui, cl, reg>>

\* _create_info_file: info.txt of the album opened with 'w'.
create_info_file(info, dir, single_count, group_count) ==
    {f \in info : f.dir # dir}
        \cup {[dir |-> dir, name |-> "info.txt", single_count |-> single_count,
               group_count |-> group_count, total |-> single_count + group_count]}

\* The group loop; after it the summary file is written and the person is
\* done.
ExportNextGroup(t) ==
    LET T == ex.tasks[t]
    IN /\ T.pc = "group"
       /\ IF T.group_photos = <<>>
          THEN ex' = [ex EXCEPT
                        !.info = create_info_file(ex.info, album_path(T),
                                                  T.single_count, T.group_count),
                        !.tasks[t] = [T EXCEPT !.persons = Tail(@), !.single_count = 0,
                                               !.group_count = 0, !.pc = "person"]]
          ELSE IF T.is_cancelled
          THEN ex' = [ex EXCEPT !.tasks[t] = Returned(T, FALSE, "cancelled", TRUE)]
          ELSE ex' = [ex EXCEPT !.tasks[t] =
                        [T EXCEPT !.pc = "copy_group",
                                  !.target_path =
                                      free_target_path(ex.files, friends_path(T),
                                                       file_name(Head(T.group_photos)), 0)]]
       /\ UNCHANGED <<dbvars, tasks, current_task, add_folder_ret, detected,
                      actions, settings, config, ui, cl, reg>>

\* ExportTask.run lines 29-35: export_finished(success, message) is
\* emitted, on_sync_finished receives it, and finally is_cancelled is set.
ExportFinish_keeps_flag(t) ==
    LET T == ex.tasks[t]
    IN /\ T.pc = "finish"
       /\ ex' = [ex EXCEPT
                   !.reports = @ \cup {[task |-> t, success |-> T.success,
                                        message |-> T.message,
                                        stopped |-> T.stopped]},
                   !.cancel_enabled = FALSE,
                   !.tasks[t] = [T EXCEPT !.pc = "done"]]
       /\ UNCHANGED <<dbvars, tasks, current_task, add_folder_ret, detected,
                      actions, settings, config, ui, cl, reg>>
ExportFinish(t) ==
    LET T == ex.tasks[t]
    IN /\ T.pc = "finish"
       /\ ex' = [ex EXCEPT
                   !.reports = @ \cup {[task |-> t, success |-> T.success,
                                        message |-> T.message,
                                        stopped |-> T.stopped]},
                   !.cancel_enabled = FALSE,
                   !.tasks[t] = [T EXCEPT !.is_cancelled = TRUE, !.pc = "done"]]
       /\ UNCHANGED <<dbvars, tasks, current_task, add_folder_ret, detected,
                      actions, settings, config, ui, cl, reg>>

\* The store an export runs on: three completed images, photo 1 with one
\* face of Alice, photo 2 with one face of Alice or of the third person,
\* photo 3 with a face of each; the third person is called Bob or, like
\* person 2, Alice; each of the two is confirmed or not; one source file
\* may be gone.
ExportInit ==
    /\ folders = {[id |-> 1, path |-> "/pics"], [id |-> 2, path |-> "/pics/sub"]}
    /\ images = {[id |-> i, folder_id |-> IF i = 1 THEN 1 ELSE 2,
                  file_path |-> ExportFiles[i], scan_status |-> "completed"] : i \in 1..3}
    /\ \E name \in {"Alice", "Bob"}, confirmed \in SUBSET {2, 3}, owner \in {2, 3} :
         /\ persons = {[id |-> 1, name |-> Sentinel, is_confirmed |-> FALSE],
                       [id |-> 2, name |-> "Alice", is_confirmed |-> 2 \in confirmed],
                       [id |-> 3, name |-> name, is_confirmed |-> 3 \in confirmed]}
         /\ faces = {[id |-> 1, image_id |-> 1, person_id |-> 2, is_person |-> TRUE, det |-> 1],
                     [id |-> 2, image_id |-> 2, person_id |-> owner, is_person |-> TRUE, det |-> 1],
                     [id |-> 3, image_id |-> 3, person_id |-> 2, is_person |-> TRUE, det |-> 1],
                     [id |-> 4, image_id |-> 3, person_id |-> 3, is_person |-> TRUE, det |-> 2]}
    /\ sqlite_sequence = [folders |-> 2, images |-> 3, persons |-> 3, faces |-> 4]
    /\ tasks = <<>> /\ current_task = 0
    /\ add_folder_ret = [d \in DirSet |-> -1]
    /\ detected = [f \in FileSet |-> 0]
    /\ actions = 0
    /\ settings = [k \in SettingKeys |-> NoValue]
    /\ config = load_settings([k \in SettingKeys |-> NoValue])
    /\ ui = [handler |-> "none", ret |-> 0]
    /\ cl = [emb |-> <<>>, threshold |-> default_similarity_threshold,
             cluster_groups |-> <<>>, ran |-> FALSE, relisted |-> FALSE,
             raised |-> FALSE, similar |-> NoQuery]
    /\ \E missing \in {{}, {"/pics/sub/a.jpg"}} :
         ex = [AlbumsTab EXCEPT !.missing = missing]
    /\ reg = NoImage

ExportNext ==
    \/ SetOutputPath
    \/ \E person_id \in 0..3 : StartSync(person_id)
    \/ CancelSync
    \/ \E t \in ExportTaskIds : ExportBegin(t)
    \/ \E t \in ExportTaskIds : ExportPerson(t)
    \/ \E t \in ExportTaskIds : ExportNextSingle(t)
    \/ \E t \in ExportTaskIds : ExportNextGroup(t)
    \/ \E t \in ExportTaskIds : ExportCopy(t)
    \/ \E t \in ExportTaskIds : ExportFinish(t)

ExportSpec == ExportInit /\ [][ExportNext]_vars

\* ------------------------------------------ clustering a curated store

\* A store after a scan and some curation: three photos with four faces,
\* each face still with the sentinel or confirmed for Alice.
CurateInit ==
    /\ folders = {[id |-> 1, path |-> "/pics"], [id |-> 2, path |-> "/pics/sub"]}
    /\ images = {[id |-> i, folder_id |-> IF i = 1 THEN 1 ELSE 2,
                  file_path |-> ExportFiles[i], scan_status |-> "completed"] : i \in 1..3}
    /\ persons = {[id |-> 1, name |-> Sentinel, is_confirmed |-> FALSE],
                  [id |-> 2, name |-> "Alice", is_confirmed |-> TRUE]}
    /\ \E owner \in [1..4 -> {1, 2}] :
         faces = {[id |-> i, image_id |-> IF i = 4 THEN 3 ELSE i,
                   person_id |-> owner[i], is_person |-> owner[i] = 2,
                   det |-> IF i = 4 THEN 2 ELSE 1] : i \in 1..4}
    /\ sqlite_sequence = [folders |-> 2, images |-> 3, persons |-> 2, faces |-> 4]
    /\ tasks = <<>> /\ current_task = 0
    /\ add_folder_ret = [d \in DirSet |-> -1]
    /\ detected = [f \in FileSet |-> 0]
    /\ actions = 0
    /\ settings = [k \in SettingKeys |-> NoValue]
    /\ config = load_settings([k \in SettingKeys |-> NoValue])
    /\ ui = [handler |-> "none", ret |-> 0]
    /\ cl = [emb |-> <<>>, threshold |-> default_similarity_threshold,
             cluster_groups |-> <<>>, ran |-> FALSE, relisted |-> FALSE,
             raised |-> FALSE, similar |-> NoQuery]
    /\ ex = AlbumsTab
    /\ reg = NoImage

\* The faces tab on that store: the cluster button, ticks and crosses on
\* faces, and the threshold setting.
CurateNext ==
    \/ ClusterFaces
    \/ \E face_id \in {r.id : r \in faces}, new_name \in Names :
          ConfirmFace(face_id, new_name)
    \/ \E face_id \in {r.id : r \in faces} : RejectFace(face_id)
    \/ \E new_value \in Thresholds : SetSimilarityThreshold(new_value)

CurateSpec == CurateInit /\ [][CurateNext]_vars

\* The cluster button pressed again and again on that store, with changes
\* of the threshold setting.
ReclusterNext ==
    \/ ClusterFaces
    \/ \E new_value \in Thresholds : SetSimilarityThreshold(new_value)

ReclusterSpec == CurateInit /\ [][ReclusterNext]_vars

\* ------------------------------------------------- settings over sessions

\* MainWindow.closeEvent -> save_window_state: Config.set for the geometry,
\* the state and the tab shown; the application ends, and at the next start
\* MainWindow.__init__ makes a new Config from the rows.
TabIndexes == {0, 1, 2}
save_window_state(cf, st, tab) ==
    LET r1 == Config_set(cf, st, "ui.window_geometry", QByteArray)
        r2 == Config_set(r1.config, r1.settings, "ui.window_state", QByteArray)
    IN Config_set(r2.config, r2.settings, "ui.last_tab_index", tab)
CloseAndReopen(tab) ==
    /\ actions < MaxUserActions
    /\ actions' = actions + 1
    /\ settings' = save_window_state(config, settings, tab).settings
    /\ config' = load_settings(settings')
    /\ tasks' = [t \in TaskIds |->
                   IF Running(t)
                   THEN [ScanTask(0) EXCEPT
                           !.pc = "killed", !.is_cancelled = tasks[t].is_cancelled]
                   ELSE tasks[t]]
    /\ current_task' = 0
    /\ ui' = [handler |-> "closeEvent", ret |-> tab]
    /\ UNCHANGED <<dbvars, add_folder_ret, detected, cl, ex, reg>>

\* The application started on a new database, or on one that an earlier
\* session left when its window was closed.
ConfigInit ==
    /\ folders = {} /\ images = {} /\ persons = {} /\ faces = {}
    /\ sqlite_sequence = [folders |-> 0, images |-> 0, persons |-> 0, faces |-> 0]
    /\ tasks = <<>> /\ current_task = 0
    /\ add_folder_ret = [d \in DirSet |-> -1]
    /\ detected = [f \in FileSet |-> 0]
    /\ actions = 0
    /\ \E closed \in BOOLEAN, tab \in TabIndexes, threshold \in Thresholds :
         settings = IF closed
                    THEN save_window_state(
                             [default_settings EXCEPT
                                 !["scan.similarity_threshold"] = threshold],
                             [k \in SettingKeys |-> NoValue], tab).settings
                    ELSE [k \in SettingKeys |-> NoValue]
    /\ config = load_settings(settings)
    /\ ui = [handler |-> "none", ret |-> 0]
    /\ cl = [emb |-> <<>>, threshold |-> default_similarity_threshold,
             cluster_groups |-> <<>>, ran |-> FALSE, relisted |-> FALSE,
             raised |-> FALSE, similar |-> NoQuery]
    /\ ex = AlbumsTab
    /\ reg = NoImage

ConfigNext ==
    \/ \E new_value \in Thresholds : SetSimilarityThreshold(new_value)
    \/ \E tab \in TabIndexes : CloseAndReopen(tab)
    \/ KillAndRestart

ConfigSpec == ConfigInit /\ [][ConfigNext]_vars

\* -------------------------------------------------- face bounding boxes

\* Faces stored for the image, and the largest raw coordinate the detector
\* gives (the smallest is -1).
MaxDetections == 2
MaxCoord == 5
ImageSizes == {<<4, 3>>, <<2, 2>>}

max(a, b) == IF a >= b THEN a ELSE b
min(a, b) == IF a <= b THEN a ELSE b

\* detect_faces lines 100-109: the box is clipped to the loaded array and
\* dropped (<<>>) when nothing is left of it.
clip_bbox(bbox, width, height) ==
    LET x1 == max(0, bbox[1])
        y1 == max(0, bbox[2])
        x2 == min(width, bbox[3])
        y2 == min(height, bbox[4])
    IN IF x1 >= x2 \/ y1 >= y2 THEN <<>> ELSE <<x1, y1, x2, y2>>

\* add_image lines 213-228: orig_w, orig_h are img.size, or stay 0, 0 when
\* PIL raises; the row is inserted with them.
add_image_dimensions(size) == IF size = <<>> THEN <<0, 0>> ELSE size
RegisterImage ==
    /\ reg.orig_width = -1
    /\ reg' = [reg EXCEPT !.orig_width = add_image_dimensions(reg.size)[1],
                          !.orig_height = add_image_dimensions(reg.size)[2]]
    /\ UNCHANGED <<dbvars, tasks, current_task, add_folder_ret, detected,
                   actions, settings, config, ui, cl, ex>>

\* One face of detect_faces (lines 87-120) saved by the scan with add_face
\* (scan_manager.py lines 172-187): the detector's box, clipped, is stored
\* as it is.
SaveFace(bbox) ==
    /\ reg.orig_width # -1
    /\ reg.shape # <<>>
    /\ Cardinality(reg.bboxes) < MaxDetections
    /\ clip_bbox(bbox, reg.shape[1], reg.shape[2]) # <<>>
    /\ reg' = [reg EXCEPT !.bboxes = @ \cup {clip_bbox(bbox, reg.shape[1], reg.shape[2])}]
    /\ UNCHANGED <<dbvars, tasks, current_task, add_folder_ret, detected,
                   actions, settings, config, ui, cl, ex>>

\* The image file: PIL and the detector's loader agree on its size, or PIL
\* cannot open it while the loader can, or nothing can load it.
DetectInit ==
    /\ folders = {} /\ images = {} /\ persons = {} /\ faces = {}
    /\ sqlite_sequence = [folders |-> 0, images |-> 0, persons |-> 0, faces |-> 0]
    /\ tasks = <<>> /\ current_task = 0
    /\ add_folder_ret = [d \in DirSet |-> -1]
    /\ detected = [f \in FileSet |-> 0]
    /\ actions = 0
    /\ settings = [k \in SettingKeys |-> NoValue]
    /\ config = load_settings([k \in SettingKeys |-> NoValue])
    /\ ui = [handler |-> "none", ret |-> 0]
    /\ cl = [emb |-> <<>>, threshold |-> default_similarity_threshold,
             cluster_groups |-> <<>>, ran |-> FALSE, relisted |-> FALSE,
             raised |-> FALSE, similar |-> NoQuery]
    /\ ex = AlbumsTab
    /\ \E shape \in ImageSizes \cup {<<>>} :
         \E size \in IF shape = <<>> THEN {<<>>} ELSE {shape, <<>>} :
            reg = [NoImage EXCEPT !.size = size, !.shape = shape]

DetectNext ==
    \/ RegisterImage
    \/ \E x1, y1, x2, y2 \in -1..MaxCoord : SaveFace(<<x1, y1, x2, y2>>)

DetectSpec == DetectInit /\ [][DetectNext]_vars

\* ------------------------------------------------------------- properties

FaceIdsOf(fc, image_id) == Ids({r \in fc : r.image_id = image_id})
FilesUnder(root_folders) ==
    {f \in FileSet : \E k \in 1..Len(root_folders) :
                        InTree(FileDir[f], root_folders[k][2])}
Alone(t) == \A u \in TaskIds \ {t} : ~Running(u)
UniquePaths(fs, im) ==
    /\ \A r, q \in fs : r.path = q.path => r = q
    /\ \A r, q \in im : r.file_path = q.file_path => r = q

\* C1: resumability.  When a scan that was not cancelled leaves its loops
\* while no other scan task is running, every image file under the folders
\* it scanned has an Image with status completed, also a file that a killed
\* earlier run left pending or processing.
C1_Resumability ==
    [][\A t \in TaskIds :
         (/\ tasks[t].pc = "loop" /\ tasks'[t].pc = "done"
          /\ ~tasks[t].is_cancelled /\ Alone(t))
         => \A f \in FilesUnder(tasks[t].root_folders) :
               image_already_processed(images', f)]_vars

\* C2: detection never runs on a file whose Image is completed, no step
\* changes the set of Faces of a completed Image, and no Image has two Faces
\* for the same detection.
C2_CompletedNotRedetected ==
    [][/\ \A f \in FileSet :
            detected'[f] # detected[f] => ~image_already_processed(images, f)
       /\ \A i \in images :
            i.scan_status = "completed"
            => FaceIdsOf(faces', i.id) = FaceIdsOf(faces, i.id)
       /\ \A r, q \in faces' :
            (r.image_id = q.image_id /\ r.det = q.det) => r = q]_vars

\* A second scan has passed over both files, each completed and detected
\* once by the first.
C2_Witness ==
    /\ Len(tasks) >= 2
    /\ ~Running(1)
    /\ tasks[2].pc = "loop" /\ tasks[2].processed_images >= 2
    /\ \A f \in FileSet : image_already_processed(images, f) /\ detected[f] = 1
    /\ Cardinality(faces) = 2

\* C3: at most one scan task executes: while a started task has not
\* finished running, start_scan starts nothing, also after cancel_scan.
C3_SingleScan ==
    [][(\E t \in TaskIds : Running(t)) => Len(tasks') = Len(tasks)]_vars

\* C4: add_folder and add_image on a registered path return the id of the
\* row that path has, and no path ever has two rows.
C4_IdempotentUpsert ==
    [][/\ \A p \in DirSet :
            add_folder_ret'[p] # add_folder_ret[p]
            => add_folder_ret'[p] = FolderIdOf(folders', p)
       /\ \A t \in TaskIds :
            (tasks[t].pc = "add_image" /\ tasks'[t].pc \in {"loop", "processing"})
            => tasks'[t].image_id = ImageIdOf(images', Head(tasks[t].image_files))
       /\ UniquePaths(folders', images')]_vars

StatusSteps ==
    {<<"pending", "processing">>, <<"processing", "completed">>,
     <<"processing", "error">>}

C6_BadFileIsError ==
    \A i \in images : i.file_path \in Unreadable => i.scan_status # "completed"

\* C7: a Face is created with is_person false and owned by a Person that
\* carries the sentinel name at that moment.
C7_NewFaceOwnedBySentinel ==
    [][\A r \in faces' :
         r.id \notin Ids(faces)
         => /\ r.is_person = FALSE
            /\ \E p \in persons' : p.id = r.person_id /\ p.name = Sentinel]_vars

\* The most steps a scan task at this point takes before it returns when
\* it starts no further file.
StepsLeft(T) ==
    CASE T.pc \in {"done", "killed"} -> 0
      [] T.pc = "loop" -> 1
      [] T.pc = "save" -> 2 + Len(T.faces)
      [] T.pc = "detect" -> 3 + Len(detect_faces(Head(T.image_files)))
      [] T.pc = "processing" -> 4 + Len(detect_faces(Head(T.image_files)))
      [] T.pc = "add_image" -> 5 + Len(detect_faces(Head(T.image_files)))
      [] T.pc = "count" -> 2
      [] T.pc = "create_person" -> 3
      [] T.pc = "get_person" -> 4
      [] T.pc = "run" -> 5

\* C8: a cancelled scan that reaches a loop head starts no further file
\* and returns; it is never blocked and each of its steps brings it closer
\* to returning, so it terminates after at most the file in progress; and
\* while a cancel is pending no step takes a completed Image out of status
\* completed or removes one of its Faces.
C8_CooperativeCancel ==
    [][/\ \A t \in TaskIds :
            tasks[t].is_cancelled
            => /\ tasks[t].pc = "loop" => tasks'[t].pc \in {"loop", "done", "killed"}
               /\ Running(t) => ENABLED TaskStep(t)
               /\ tasks'[t] # tasks[t] => StepsLeft(tasks'[t]) < StepsLeft(tasks[t])
       /\ (\E t \in TaskIds : tasks'[t].is_cancelled)
          => \A i \in images :
               i.scan_status = "completed"
               => /\ i \in images'
                  /\ FaceIdsOf(faces, i.id) \subseteq FaceIdsOf(faces', i.id)]_vars

\* A cancelled scan has returned: the file it had completed keeps its
\* status and Faces, the file after it was never registered.
C8_Witness ==
    /\ Len(tasks) = 1
    /\ tasks[1].is_cancelled /\ tasks[1].pc = "done"
    /\ \E i \in images : i.scan_status = "completed" /\ FaceIdsOf(faces, i.id) # {}
    /\ \E f \in FileSet : ~image_exists(images, f)

\* C9: every Face refers to an existing Image and an existing Person.
C9_ReferentialIntegrity ==
    \A r \in faces : r.image_id \in Ids(images) /\ r.person_id \in Ids(persons)

\* C10: once remove_folder has deleted a Folder, no Image owned by it and
\* no Face of such an Image is left.
C10_CascadeDelete ==
    [][\A r \in folders :
         r \notin folders'
         => /\ \A i \in images' : i.folder_id # r.id
            /\ \A q \in faces' : \A i \in images :
                 i.folder_id = r.id => q.image_id # i.id]_vars

\* C11: only a scan task's face-saving step changes the set of Face rows:
\* clustering, merge, moving a face, renaming, confirming or rejecting a
\* face and deleting a person leave every Face row in place and add none,
\* so the number of Faces stays what scans made it.
C11_FacesOnlyFromScan ==
    [][/\ Ids(faces) \subseteq Ids(faces')
       /\ Ids(faces') # Ids(faces) => \E t \in TaskIds : AddFace(t)
       /\ (\A t \in TaskIds : ~AddFace(t))
          => Cardinality(faces') = Cardinality(faces)]_vars

\* A face was confirmed into a person of its own and a rename merged that
\* person back: the two Faces the scan made are both there.
C11_Witness ==
    /\ ui.handler = "rename_person"
    /\ sqlite_sequence.persons = 2
    /\ Cardinality(persons) = 1
    /\ Cardinality(faces) = 2
    /\ \E r \in faces : r.is_person

\* C12: sentinel uniqueness.  At most one Person row carries the sentinel
\* name, whatever scans, name dialogs and renames are interleaved.
C12_SentinelUnique ==
    Cardinality({p \in persons : p.name = Sentinel}) <= 1

\* C13: sentinel permanence.  No step renames a Person that carries the
\* sentinel name and none removes its row.
C13_SentinelPermanent ==
    [][\A p \in persons :
         p.name = Sentinel => \E q \in persons' : q.id = p.id /\ q.name = Sentinel]_vars

\* C14: merge_persons(A, B) for two distinct Persons gives every Face of A
\* to B with nothing else about the Face changed, removes A's row and no
\* other, reports success, and leaves the set of Faces and the Faces of
\* every other Person as they were.
C14_Merge ==
    [][\A A, B \in Ids(persons) :
         (/\ A # B
          /\ \E new_name \in Names :
               get_person_by_name(persons, new_name) = B /\ RenamePerson(A, new_name))
         => /\ \A r \in faces :
                 r.person_id = A => [r EXCEPT !.person_id = B] \in faces'
            /\ \A r \in faces : r.person_id # A => r \in faces'
            /\ Ids(faces') = Ids(faces)
            /\ persons' = {p \in persons : p.id # A}
            /\ ui'.ret = 1]_vars

\* Person 2, made from one face of the sentinel, was merged into the
\* sentinel again: the merge reported success and person 1 owns both Faces.
C14_Witness ==
    /\ ui = [handler |-> "rename_person", ret |-> 1]
    /\ Ids(persons) = {1}
    /\ sqlite_sequence.persons = 2
    /\ Cardinality(faces) = 2
    /\ \A r \in faces : r.person_id = 1

\* The clusters the cluster button finds in the present store.
FoundClusters ==
    LET face_data == get_all_face_embeddings(faces, persons)
    IN cluster_faces([i \in 1..Len(face_data) |-> face_data[i].id],
                     [id \in Ids(faces) |->
                         ModelEmbedding((CHOOSE r \in faces : r.id = id).det)],
                     Config_get(config, settings, "scan.similarity_threshold",
                                default_similarity_threshold))

\* C15: applying a clustering result makes exactly one new Person per
\* non-noise cluster, unconfirmed and named Person_<N>, gives it every Face
\* of the cluster with is_person false, and leaves every other Face (the
\* noise) as it was, with the sentinel.
C15_ApplyClusters ==
    [][ClusterFaces
       => /\ Cardinality(persons' \ persons) = Len(FoundClusters)
          /\ persons \subseteq persons'
          /\ \A k \in 1..Len(FoundClusters) :
               \E p \in persons' \ persons :
                 /\ ~p.is_confirmed /\ MatchesPersonPattern(p.name)
                 /\ \A i \in 1..Len(FoundClusters[k]) :
                      \E r \in faces' : /\ r.id = FoundClusters[k][i]
                                        /\ r.person_id = p.id /\ ~r.is_person
          /\ \A r \in faces :
               (\A k \in 1..Len(FoundClusters) :
                  \A i \in 1..Len(FoundClusters[k]) : r.id # FoundClusters[k][i])
               => r \in faces']_vars

\* The partition a result of cluster_faces stands for, and whether it puts
\* two faces into one group.
Partition(cluster_groups) ==
    {{cluster_groups[k][i] : i \in 1..Len(cluster_groups[k])} :
        k \in 1..Len(cluster_groups)}
Together(cluster_groups, a, b) ==
    \E g \in Partition(cluster_groups) : a \in g /\ b \in g

\* C17: clustering determinism.  With the same faces, embeddings and
\* threshold, a run of cluster_faces gives the same partition of the face
\* ids as the run before it, whatever order the store returns the rows in.
C17_Deterministic ==
    [][(cl.ran /\ cl'.threshold = cl.threshold /\ cl'.emb = cl.emb)
       => Partition(cl'.cluster_groups) = Partition(cl.cluster_groups)]_vars

\* A run that got the rows in another order than the run before, at the
\* same threshold, and listed its result differently: a group of three, a
\* chain in which two faces are not similar to each other.
C17_Witness ==
    /\ cl.ran /\ cl.relisted
    /\ \E g \in Partition(cl.cluster_groups) :
         /\ Cardinality(g) = 3
         /\ \E a, b \in g : ~similarity_ge(cl.emb[a], cl.emb[b], cl.threshold)

\* C18: threshold monotonicity.  With the same embeddings, two faces that
\* a run of cluster_faces did not put into one group are not in one group
\* after a run at a higher threshold.
C18_ThresholdMonotone ==
    [][(cl.ran /\ cl'.threshold > cl.threshold /\ cl'.emb = cl.emb)
       => \A a, b \in 1..MaxFaces :
            Together(cl'.cluster_groups, a, b) => Together(cl.cluster_groups, a, b)]_vars

\* A run at a raised threshold that still finds a group of two, and leaves
\* out a third face that is similar enough to one of the two at the lowest
\* threshold.
C18_Witness ==
    /\ cl.ran /\ cl.raised
    /\ \E g \in Partition(cl.cluster_groups) :
         /\ Cardinality(g) = 2
         /\ \E a \in g, b \in (1..MaxFaces) \ g :
              /\ cl.emb[b] # <<>>
              /\ similarity_ge(cl.emb[a], cl.emb[b], 6)

\* A step that renames person p: the row keeps its id and gets a name that
\* no person had before.
RenamedToUnused(p) ==
    /\ \E q \in persons' : q.id = p.id /\ q.name # p.name
    /\ \A q \in persons' : q.id = p.id => \A r \in persons : r.name # q.name

\* C19: renaming a person that carries a placeholder name (Person_<N>) to
\* a new, unused name leaves that person confirmed and every face it owns
\* with is_person true, through the persons-list rename of the faces tab
\* as well as through the face-name edit of the photo viewer.
C19_RenameConfirms ==
    [][\A p \in persons :
         (MatchesPersonPattern(p.name) /\ RenamedToUnused(p))
         => /\ \A q \in persons' : q.id = p.id => q.is_confirmed
            /\ \A f \in faces' : f.person_id = p.id => f.is_person]_vars

\* C20: export partition completeness.  In every store state and for every
\* person, the photos of get_single_photos and those of
\* get_photos_with_multiple_faces are disjoint, together they are exactly
\* the images that carry a face of the person (get_person_photos), and such
\* an image is in the group set exactly when more than one face, of any
\* owner, is on it.
C20_ExportPartition ==
    \A p \in persons :
        LET solo == get_single_photos(faces, images, p.id)
            group == get_photos_with_multiple_faces(faces, images, p.id)
        IN /\ solo \cap group = {}
           /\ solo \cup group = get_person_photos(faces, images, p.id)
           /\ \A i \in images :
                (\E f \in faces : f.image_id = i.id /\ f.person_id = p.id)
                => (i.file_path \in group <=> faces_on_image(faces, i.id) > 1)

\* Two persons share a photo, each owning one of its faces: it is a group
\* photo of both and a solo photo of neither.
C20_Witness ==
    \E p, q \in persons :
        /\ p.id # q.id
        /\ \E i \in images :
             /\ Cardinality({f \in faces : f.image_id = i.id /\ f.person_id = p.id}) = 1
             /\ Cardinality({f \in faces : f.image_id = i.id /\ f.person_id = q.id}) = 1
             /\ i.file_path \in get_photos_with_multiple_faces(faces, images, p.id)
             /\ i.file_path \in get_photos_with_multiple_faces(faces, images, q.id)
             /\ get_single_photos(faces, images, p.id) = {}


\* What destination/<PersonName>/ and its with_friends folder hold.
PhotoFilesIn(dir) == {f \in ex.files : f.dir = dir}
ExportDone(t) == ex.tasks[t].pc = "done"

\* C21: export collision safety.  No copy overwrites a destination file:
\* every copy a task has made is still there with the content of its
\* source, and no two copies went to the same destination path - within a
\* run, across runs to the same destination, and between runs that overlap.
C21_CollisionSafe ==
    /\ \A c \in ex.copies :
         \E f \in ex.files : f.dir = c.dir /\ f.name = c.name /\ f.src = c.src
    /\ \A c, d \in ex.copies : (c.dir = d.dir /\ c.name = d.name) => c = d

\* C22: export counts.  After the one successful, uncancelled export into
\* the empty destination, each exported person with s solo and g group
\* photos has exactly s photo files in destination/<PersonName>/, g in its
\* with_friends folder, and a summary that reports s, g and s + g.
C22_ExportCounts ==
    (Len(ex.tasks) = 1 /\ ExportDone(1) /\ ex.tasks[1].success /\ ~ex.tasks[1].stopped)
    => \A k \in 1..Len(get_persons_with_albums(persons, ex.albums)) :
         LET r == get_persons_with_albums(persons, ex.albums)[k]
             dir == join(r.output_path, r.name)
             s == Cardinality(get_single_photos(faces, images, r.id))
             g == Cardinality(get_photos_with_multiple_faces(faces, images, r.id))
         IN /\ Cardinality(PhotoFilesIn(dir)) = s
            /\ Cardinality(PhotoFilesIn(join(dir, "with_friends"))) = g
            /\ \E i \in ex.info : /\ i.dir = dir /\ i.single_count = s
                                  /\ i.group_count = g /\ i.total = s + g

\* C23: single-person export.  An export started for one person with an
\* album, and not cancelled, finishes reporting success, has written that
\* person's summary, and has copied files into that person's folders only.
C23_SinglePerson ==
    \A t \in ExportTaskIds :
        (ExportDone(t) /\ ex.tasks[t].person_id # 0 /\ ~ex.tasks[t].stopped)
        => /\ ex.tasks[t].success
           /\ \E p \in persons, a \in ex.albums :
                /\ p.id = ex.tasks[t].person_id /\ a.person_id = p.id
                /\ \E i \in ex.info : i.dir = join(a.output_path, p.name)
                /\ \A c \in ex.copies :
                     c.task = t => c.dir \in {join(a.output_path, p.name),
                                              join(join(a.output_path, p.name),
                                                   "with_friends")}

\* C24: one export at a time.  A new export task is started only while no
\* export task made earlier is still running, also after cancel_export.
C24_OneExport ==
    [][Len(ex'.tasks) > Len(ex.tasks)
       => \A t \in ExportTaskIds : ~ExportRunning(t)]_vars

\* C25: a failed copy skips one file only.  An all-albums export that was
\* not cancelled has, when it ends, copied every photo whose source exists,
\* of every person with an album.
C25_CopyFailureSkipsOneFile ==
    \A t \in ExportTaskIds :
        (ExportDone(t) /\ ex.tasks[t].person_id = 0 /\ ~ex.tasks[t].stopped)
        => \A k \in 1..Len(get_persons_with_albums(persons, ex.albums)) :
             LET r == get_persons_with_albums(persons, ex.albums)[k]
             IN \A src \in get_person_photos(faces, images, r.id) \ ex.missing :
                  \E c \in ex.copies : /\ c.task = t /\ c.src = src
                                       /\ c.dir \in {join(r.output_path, r.name),
                                                     join(join(r.output_path, r.name),
                                                          "with_friends")}

\* C26: cancellation is a distinct outcome.  What a run that stopped
\* because of a cancel reports is neither what a successful run nor what a
\* failed run reports.
C26_CancelDistinct ==
    \A r \in ex.reports :
        (r.task # 0 /\ r.stopped)
        => <<r.success, r.message>> \notin
               {<<TRUE, "completed">>, <<FALSE, "export_error">>,
                <<FALSE, "no_persons">>, <<FALSE, "album_error">>}

\* C27: empty input is a success.  An all-albums export that finds no
\* person with an album reports success and writes nothing.
C27_EmptyInputSucceeds ==
    \A t \in ExportTaskIds :
        (/\ ExportDone(t) /\ ex.tasks[t].person_id = 0
         /\ get_persons_with_albums(persons, ex.albums) = <<>>)
        => ex.tasks[t].success /\ ex.files = {} /\ ex.info = {}


\* C28: coordinate invariant.  Every stored face box lies inside the
\* original size recorded for its image, 0 <= x1 < x2 <= orig_width and
\* 0 <= y1 < y2 <= orig_height, also when the size could not be read at
\* registration.
C28_Coordinates ==
    \A b \in reg.bboxes :
        /\ 0 <= b[1] /\ b[1] < b[3] /\ b[3] <= reg.orig_width
        /\ 0 <= b[2] /\ b[2] < b[4] /\ b[4] <= reg.orig_height

\* C29: similarity lookup.  find_similar_faces(face_id, threshold) returns
\* every other face whose cosine similarity to the given face is at least
\* the threshold, no face below it, in descending order of similarity.
C29_SimilarFaces ==
    cl.similar.face_id # 0 =>
        LET q == cl.similar
            t == cl.emb[q.face_id]
            expected == IF t = <<>> THEN {}
                        ELSE {f \in (1..MaxFaces) \ {q.face_id} :
                                 /\ cl.emb[f] # <<>>
                                 /\ similarity_ge(t, cl.emb[f], q.threshold)}
        IN /\ {q.result[i] : i \in 1..Len(q.result)} = expected
           /\ Len(q.result) = Cardinality(expected)
           /\ \A i, j \in 1..Len(q.result) :
                 i < j => more_similar(t, cl.emb[q.result[i]], cl.emb[q.result[j]])

\* The owner of face r is no person named as the sentinel.
NotSentinelOwned(r) == ~\E p \in persons : p.id = r.person_id /\ p.name = Sentinel

SimilarityEdge(a, b) ==
    a # b /\ similarity_ge(cl.emb[a], cl.emb[b], cl.threshold)
RECURSIVE Connected(_, _)
Connected(P, S) ==
    LET N == S \cup {b \in P : \E a \in S : SimilarityEdge(a, b)}
    IN IF N = S THEN S ELSE Connected(P, N)
Component(P, a) == Connected(P, {a})

\* C31: with minimum cluster size 2 the groups of cluster_faces are exactly
\* the connected components with two or more faces of the graph whose edges
\* join faces at distance <= 1 - threshold, and a face is noise exactly when
\* it has no such neighbour.
C31_Components ==
    cl.ran =>
        LET P == {f \in 1..MaxFaces : cl.emb[f] # <<>>}
            groups == Partition(cl.cluster_groups)
        IN /\ groups = {g \in {Component(P, a) : a \in P} : Cardinality(g) >= 2}
           /\ \A a \in P :
                (\A g \in groups : a \notin g) <=> (\A b \in P : ~SimilarityEdge(a, b))
           /\ \A k \in 1..Len(cl.cluster_groups) :
                Cardinality({cl.cluster_groups[k][i] : i \in 1..Len(cl.cluster_groups[k])})
                    = Len(cl.cluster_groups[k])

\* A run that found a group of two faces and left a third face with an
\* embedding as noise: it is too far from both at the run's threshold, and
\* near enough to one of them at the lowest threshold.
C31_Witness ==
    /\ cl.ran
    /\ \E g \in Partition(cl.cluster_groups) :
         /\ Cardinality(g) = 2
         /\ \E c \in (1..MaxFaces) \ g :
              /\ cl.emb[c] # <<>>
              /\ \A a \in g : ~similarity_ge(cl.emb[a], cl.emb[c], cl.threshold)
              /\ \E a \in g : similarity_ge(cl.emb[a], cl.emb[c], default_similarity_threshold)

\* C32: clustering is idempotent on an unchanged store.  A run of
\* cluster_faces and apply_clusters_to_database that directly follows
\* another, with no scan, no curation and no change of the threshold in
\* between, creates no person and reassigns no face.
C32_Idempotent ==
    [][(ui.handler = "cluster_faces" /\ ClusterFaces)
       => persons' = persons /\ faces' = faces]_vars

\* The cluster button was pressed twice and nothing else was done, on a
\* store in which the sentinel owns faces that form a cluster.
C32_Witness ==
    /\ ui.handler = "cluster_faces"
    /\ actions = 2
    /\ settings["scan.similarity_threshold"] = NoValue
    /\ FoundClusters # <<>>

\* C33: the scan slot is always released.  Once the scan task the manager
\* holds has finished running (normally, with an error or after a
\* cancellation), the next start_scan is accepted and returns True, with
\* no cancel_scan needed first.
C33_ScanSlotReleased ==
    (current_task # 0 /\ ~Running(current_task))
        => ~(current_task # 0 /\ ~tasks[current_task].is_cancelled)

\* C34: the export slot is always released.  Once the export task the
\* manager holds has finished running, or every export task has, with
\* success, failure or after a cancellation, is_exporting() is False and
\* the next start_export is accepted and returns True.
C34_ExportSlotReleased ==
    (\/ ex.current_task # 0 /\ ExportDone(ex.current_task)
     \/ ex.tasks # <<>> /\ \A t \in ExportTaskIds : ExportDone(t))
    => /\ ~is_exporting
       /\ ~(ex.current_task # 0 /\ ~ex.tasks[ex.current_task].is_cancelled)

\* Two exports have finished: the first was cancelled while it ran and
\* stopped, the second, which the manager still holds, ran to the end and
\* copied photos.
C34_Witness ==
    /\ Len(ex.tasks) = 2 /\ ExportDone(1) /\ ExportDone(2)
    /\ ex.tasks[1].stopped
    /\ ex.current_task = 2 /\ ex.tasks[2].success /\ ~ex.tasks[2].stopped
    /\ \E c \in ex.copies : c.task = 2

\* C35: Config.set(key, value) changes the stored value of that key only.
\* Every other row of settings keeps the value it had in the store just
\* before the call.
C35_SetOneKey ==
    [][\A new_value \in Thresholds :
         SetSimilarityThreshold(new_value)
         => \A k \in SettingKeys \ {"scan.similarity_threshold"} :
               settings[k] # NoValue => settings'[k] = settings[k]]_vars

\* C36: every Image a scan registers is owned by the Folder row whose path
\* is the directory that directly contains the file, also when the file
\* lies in a nested subdirectory of a registered folder.
C36_OwningFolder ==
    [][\A r \in images' :
         r.id \notin Ids(images)
         => \E f \in folders' : f.id = r.folder_id /\ f.path = FileDir[r.file_path]]_vars

\* C37: within one scan run every progress event carries the same total,
\* the number of distinct image files under the target folders, and the
\* done values count 1, 2, 3, ... without exceeding the total, each file
\* reported once.  A task that has emitted processed_images events holds
\* the total and the count of the last event.
C37_Progress ==
    \A t \in TaskIds :
        tasks[t].processed_images > 0
        => /\ tasks[t].total_images = Cardinality(FilesUnder(tasks[t].root_folders))
           /\ tasks[t].processed_images <= tasks[t].total_images

\* The width the face count asks for, and n written with zeros on the left
\* up to that width and with all its digits beyond it.
WidthFor(total_faces) ==
    IF total_faces < 10 THEN 1 ELSE IF total_faces < 100 THEN 2
    ELSE IF total_faces < 1000 THEN 3 ELSE IF total_faces < 10000 THEN 4 ELSE 5
RECURSIVE Padded(_, _)
Padded(n, width) ==
    IF width <= 1 \/ n >= 10 ^ (width - 1) THEN ToString(n)
    ELSE "0" \o Padded(n, width - 1)

\* C38: the number in a new cluster name is the counter value padded with
\* zeros on the left to the width the present number of faces gives (1
\* below 10 faces, 2 below 100, 3 below 1,000, 4 below 10,000, else 5) and
\* never truncated.  A run of the cluster button that finds clusters names
\* its first new person with the counter's next value in that form.
C38_Padding ==
    [][(ClusterFaces /\ FoundClusters # <<>>)
       => \E p \in persons' :
            /\ p.id \notin Ids(persons)
            /\ p.name = "Person_" \o Padded(get_setting(settings, "last_cluster_id", 0) + 1,
                                            WidthFor(Cardinality(faces)))]_vars

\* The album folder of a confirmed person with an album row, and its
\* with_friends folder.
ConfirmedAlbumDirs(p) ==
    {d \in UNION {{join(a.output_path, p.name),
                   join(join(a.output_path, p.name), "with_friends")} :
                      a \in {b \in ex.albums : b.person_id = p.id}} : p.is_confirmed}

\* C39: in all-persons mode an export writes only for persons that are
\* confirmed and have an album destination.  Every person an all-albums run
\* has still to make folders for is confirmed and has an album row; every
\* file such a run copied is a photo of a confirmed person with an album
\* and went into that person's folders; every summary lies in the folder
\* of such a person; nothing is written for an unconfirmed person.
C39_ConfirmedOnly ==
    /\ \A t \in ExportTaskIds :
         ex.tasks[t].person_id = 0
         => \A k \in 1..Len(ex.tasks[t].persons) :
              \E p \in persons :
                 /\ p.id = ex.tasks[t].persons[k].id /\ p.is_confirmed
                 /\ \E a \in ex.albums : a.person_id = p.id
    /\ \A c \in ex.copies :
         ex.tasks[c.task].person_id = 0
         => \E p \in persons :
               /\ c.dir \in ConfirmedAlbumDirs(p)
               /\ c.src \in get_person_photos(faces, images, p.id)
    /\ \A i \in ex.info : \E p \in persons : i.dir \in ConfirmedAlbumDirs(p)
    /\ \A f \in ex.files : \E p \in persons : f.dir \in ConfirmedAlbumDirs(p)

\* An all-albums run has ended with success beside an unconfirmed person
\* of another name who owns the face of a photo of their own: the confirmed
\* person's photos were copied, that photo was not.
C39_Witness ==
    \E t \in ExportTaskIds, u \in persons :
        /\ ExportDone(t) /\ ex.tasks[t].person_id = 0
        /\ ex.tasks[t].success /\ ~ex.tasks[t].stopped
        /\ \E c \in ex.copies : c.task = t
        /\ u.id = 3 /\ ~u.is_confirmed /\ u.name = "Bob"
        /\ "/pics/sub/a.jpg" \in get_single_photos(faces, images, u.id)
        /\ \A c \in ex.copies : c.src # "/pics/sub/a.jpg"
        /\ PhotoFilesIn("/out/Bob") = {}

====
